---- MODULE Spec2Model ----
(***************************************************************************)
(* Model of the ndnm-argos client runtime: the port reconciler             *)
(* (utils/flowUtils.ts, hooks/useFlowStateSync.ts), the graph validator    *)
(* and serializer (utils/graphConverter.ts), the WebSocket connection      *)
(* manager (hooks/useWsClient.ts) and the execution session                *)
(* (hooks/useWorkflowExecution.ts).                                        *)
(*                                                                         *)
(* JavaScript values are encoded so that every comparison in the model is  *)
(* between values of one TLA+ type:                                        *)
(*   - an I/O mode is a string that carries its JS type: "num0", "num1",   *)
(*     "str0", "str1", "strn", "strx" (any other string), "undef";         *)
(*   - a port count is a record [fin, n]: fin is Number.isFinite(value),   *)
(*     n the number (0 when the value is undefined or not a number);       *)
(*   - a handle id is the tuple of its characters, << >> for null,         *)
(*     undefined or the empty string (all falsy);                          *)
(*   - a node carries obj, which tells the JS object that holds it from    *)
(*     the one held before the latest update of the nodes state: 0 is the  *)
(*     same object, 1 is an object created by that update (a spread).      *)
(***************************************************************************)
EXTENDS Integers, Sequences, FiniteSets, TLC

VARIABLES
    nodes,      \* useFlowStateSync: nodes state (sequence of node records)
    edges,      \* useFlowStateSync: edges state (sequence of edge records)
    idRef,      \* FlowInner: idRef.current, the next node number
    saved,      \* workspace store: the graph last saved under the name, or NoGraph
    passes,     \* number of reconciliation passes applied (SpecReconcile)
    \* --- useWsClient ---
    status,         \* status state: idle, connecting, open, closing, closed
    wsRef,          \* wsRef.current: 0 (null) or the index of a transport in socks
    socks,          \* every WebSocket created: [state (readyState), gen (owning effect run)]
    hbRef,          \* hbRef.current is a timer id (TRUE) or null (FALSE)
    hbTimers,       \* number of live setInterval timers
    retriesRef,     \* retriesRef.current
    manualCloseRef, \* manualCloseRef.current
    gen,            \* number of runs of the connecting effect so far
    mounted,        \* the latest effect run has not been cleaned up (its cancelled is false)
    timers,         \* pending setTimeout(connect, delay): set of [gen, delay]
    opts,           \* options: [autoreconnect, maxRetries, heartbeatMs]
    lastMessage,    \* lastMessage state
    lastJson,       \* lastJson state
    sent,           \* frames handed to WebSocket.send by send(): sequence of [sock, data]
    pings,          \* number of heartbeat pings handed to WebSocket.send
    sendLog,        \* results returned by the calls of send(), in order
    closeCalled,    \* close() has been called on this manager
    \* --- useWorkflowExecution ---
    executionState, \* executionState state
    serialized,     \* the results of the convertGraphForBackend calls made so far
    jsonPending,    \* the effect on client.lastJson has a parsed message to handle
    history,        \* the session's events so far: triggers, resets, handled messages
    \* --- effects of the editing session ---
    prevIOCountsRef, \* useFlowStateSync: prevIOCountsRef.current, node id -> counts
    toUpdate,        \* ids handed to updateNodeInternals by the pass of the latest step
    pendingUpdates,  \* setNodes updaters queued by effects for the next render
    nodesVersion     \* which array the nodes state holds: flips with every new array

graphVars == <<nodes, edges, idRef, saved, passes>>

wsVars == <<status, wsRef, socks, hbRef, hbTimers, retriesRef, manualCloseRef, gen,
            mounted, timers, opts, lastMessage, lastJson, sent, pings, sendLog,
            closeCalled>>

execVars == <<executionState, serialized, jsonPending, history>>

syncVars == <<prevIOCountsRef, toUpdate, pendingUpdates, nodesVersion>>

vars == <<nodes, edges, idRef, saved, passes,
          status, wsRef, socks, hbRef, hbTimers, retriesRef, manualCloseRef, gen,
          mounted, timers, opts, lastMessage, lastJson, sent, pings, sendLog,
          closeCalled, executionState, serialized, jsonPending, history,
          prevIOCountsRef, toUpdate, pendingUpdates, nodesVersion>>

(***************************************************************************)
(* Bounds of the model.                                                    *)
(***************************************************************************)
MaxCount == 2
MaxEdges == 1
MaxGraphEdges == 2
MaxNodes == 2
MaxPasses == 2
MaxSockets == 3
MaxGens == 3
SocketCap == 2
MaxRetryStart == 4
MaxSends == 1
MaxPings == 1
MaxHistory == 2

(***************************************************************************)
(* JavaScript helpers.                                                     *)
(***************************************************************************)
Max(a, b) == IF a >= b THEN a ELSE b

Num(k) == [fin |-> TRUE, n |-> k]

Undefined == [fin |-> FALSE, n |-> 0]

ModeVals == {"num0", "num1", "str0", "str1", "strn", "strx", "undef"}

NullHandle == << >>

in_0 == <<"i", "n", "_", "0">>

in_1 == <<"i", "n", "_", "1">>

out_0 == <<"o", "u", "t", "_", "0">>

out_1 == <<"o", "u", "t", "_", "1">>

port_a == <<"p", "o", "r", "t">>

startsWith(s, p) == Len(s) >= Len(p) /\ SubSeq(s, 1, Len(p)) = p

\* { ...node, data: { ...data, ... } }: the copy is another object.
Spread(node) == [node EXCEPT !.obj = 1]

\* The objects an update starts from: the ones the nodes state holds.
Held(ns) == [i \in DOMAIN ns |-> [ns[i] EXCEPT !.obj = 0]]

RECURSIVE SetToSeq(_)
SetToSeq(S) ==
    IF S = {} THEN << >>
    ELSE LET x == CHOOSE y \in S : TRUE IN <<x>> \o SetToSeq(S \ {x})

Range(s) == {s[i] : i \in DOMAIN s}

(***************************************************************************)
(* Port reconciler: utils/flowUtils.ts                                     *)
(***************************************************************************)
normalizeIOMode(mode) ==
    IF mode = "str0" \/ mode = "num0" THEN "num0"
    ELSE IF mode = "str1" \/ mode = "num1" THEN "num1"
    ELSE IF mode = "strn" THEN "strn"
    ELSE "num1"

\* Number.isFinite(c) ? Math.max(c, 1) : 1
currentCount(c) == IF c.fin THEN Max(c.n, 1) ELSE 1

usedInHandles(id, es) ==
    {es[i].targetHandle : i \in {j \in DOMAIN es :
        /\ es[j].target = id
        /\ es[j].targetHandle # NullHandle
        /\ startsWith(es[j].targetHandle, <<"i", "n", "_">>)}}

usedOutHandles(id, es) ==
    {es[i].sourceHandle : i \in {j \in DOMAIN es :
        /\ es[j].source = id
        /\ es[j].sourceHandle # NullHandle
        /\ startsWith(es[j].sourceHandle, <<"o", "u", "t", "_">>)}}

\* A reconciler that rebuilds the node on every pass, changed or not.
normalizeNodeIOCountsAlwaysCopy(node, es) ==
    LET shouldInCount == Max(Cardinality(usedInHandles(node.id, es)) + 1, 1)
        afterIn ==
            IF normalizeIOMode(node.inputsMode) = "strn"
            THEN [Spread(node) EXCEPT !.inputsMode = "strn",
                                      !.inputsCount = Num(shouldInCount)]
            ELSE node
        shouldOutCount == Max(Cardinality(usedOutHandles(afterIn.id, es)) + 1, 1)
    IN  IF normalizeIOMode(node.outputsMode) = "strn"
        THEN [Spread(afterIn) EXCEPT !.outputsMode = "strn",
                                     !.outputsCount = Num(shouldOutCount)]
        ELSE afterIn

\* A reconciler that stores the number of used handles, without the free slot.
normalizeNodeIOCountsNoFreeSlot(node, es) ==
    LET shouldInCount == Cardinality(usedInHandles(node.id, es))
        afterIn ==
            IF /\ normalizeIOMode(node.inputsMode) = "strn"
               /\ shouldInCount # currentCount(node.inputsCount)
            THEN [Spread(node) EXCEPT !.inputsMode = "strn",
                                      !.inputsCount = Num(shouldInCount)]
            ELSE node
        shouldOutCount == Cardinality(usedOutHandles(afterIn.id, es))
    IN  IF /\ normalizeIOMode(node.outputsMode) = "strn"
           /\ shouldOutCount # currentCount(afterIn.outputsCount)
        THEN [Spread(afterIn) EXCEPT !.outputsMode = "strn",
                                     !.outputsCount = Num(shouldOutCount)]
        ELSE afterIn

normalizeNodeIOCounts(node, es) ==
    LET inputsMode == normalizeIOMode(node.inputsMode)
        currentInCount == currentCount(node.inputsCount)
        shouldInCount == Max(Cardinality(usedInHandles(node.id, es)) + 1, 1)
        afterIn ==
            IF inputsMode = "strn" /\ shouldInCount # currentInCount
            THEN [Spread(node) EXCEPT !.inputsMode = "strn",
                                      !.inputsCount = Num(shouldInCount)]
            ELSE node
        outputsMode == normalizeIOMode(node.outputsMode)
        currentOutCount == currentCount(afterIn.outputsCount)
        shouldOutCount == Max(Cardinality(usedOutHandles(afterIn.id, es)) + 1, 1)
    IN  IF outputsMode = "strn" /\ shouldOutCount # currentOutCount
        THEN [Spread(afterIn) EXCEPT !.outputsMode = "strn",
                                     !.outputsCount = Num(shouldOutCount)]
        ELSE afterIn

normalizeAllNodesIO(ns, es) == [i \in DOMAIN ns |-> normalizeNodeIOCounts(ns[i], es)]

(***************************************************************************)
(* Connection manager (hooks/useWsClient.ts): options and the state before *)
(* the connecting effect has run.                                          *)
(***************************************************************************)
\* maxRetries defaults to Infinity: a value no retry count of a bounded run reaches.
Infinity == 1000000

\* The options a caller passes: the hooks of this repository pass
\* autoreconnect true with the heartbeat on or off; maxRetries and
\* autoreconnect: false are the other documented settings.
OptionSets ==
    { [autoreconnect |-> TRUE, maxRetries |-> Infinity, heartbeatMs |-> 25000],
      [autoreconnect |-> TRUE, maxRetries |-> Infinity, heartbeatMs |-> 0],
      [autoreconnect |-> TRUE, maxRetries |-> 1, heartbeatMs |-> 25000],
      [autoreconnect |-> FALSE, maxRetries |-> Infinity, heartbeatMs |-> 25000] }

\* useWorkflowExecution's client: autoreconnect true, heartbeatMs 25000.
executionClientOptions ==
    [autoreconnect |-> TRUE, maxRetries |-> Infinity, heartbeatMs |-> 25000]

\* A parsed backend message; a field the message does not carry is "undefined"
\* (strings) or 0 (numbers, read only through `||` or as counts).
Msg(type, run_id, current_node, total_nodes, executed_nodes, cached_nodes, duration_ms, error, failed_node) ==
    [type |-> type, run_id |-> run_id, current_node |-> current_node,
     total_nodes |-> total_nodes, executed_nodes |-> executed_nodes,
     cached_nodes |-> cached_nodes, duration_ms |-> duration_ms,
     error |-> error, failed_node |-> failed_node]

BlankMsg(type) ==
    Msg(type, "undefined", "undefined", 0, 0, 0, 0, "undefined", "undefined")

\* lastJson === null
NullJson == BlankMsg("null")

\* lastMessage === null
NoMessage == [json |-> FALSE, value |-> BlankMsg("none")]

\* The state of useWsClient before its effect has run, with options o.
WsIdle(o) ==
    /\ status = "idle"
    /\ wsRef = 0
    /\ socks = << >>
    /\ hbRef = FALSE
    /\ hbTimers = 0
    /\ retriesRef = 0
    /\ manualCloseRef = FALSE
    /\ gen = 0
    /\ mounted = FALSE
    /\ timers = {}
    /\ opts = o
    /\ lastMessage = NoMessage
    /\ lastJson = NullJson
    /\ sent = << >>
    /\ pings = 0
    /\ sendLog = << >>
    /\ closeCalled = FALSE

\* useWorkflowExecution: const initialState
initialState ==
    [status |-> "idle", runId |-> "null", totalNodes |-> 0, executedNodes |-> 0,
     cachedNodes |-> 0, durationMs |-> 0, error |-> "null", currentNode |-> "null"]

\* The state of useWorkflowExecution on its first render.
ExecIdle ==
    /\ executionState = initialState
    /\ serialized = {}
    /\ jsonPending = FALSE
    /\ history = << >>

\* prevIOCountsRef.current = {}
NoRecords == [id \in {} |-> 0]

\* The effects of the editing session are not followed: nothing recorded,
\* nothing reported, nothing queued.
SyncIdle ==
    /\ prevIOCountsRef = NoRecords
    /\ toUpdate = << >>
    /\ pendingUpdates = {}
    /\ nodesVersion = 0

\* The hooks outside the editor, before anything has happened.
HooksIdle == WsIdle(executionClientOptions) /\ ExecIdle

(***************************************************************************)
(* Graphs handed to the pure functions: node n1 holds any stored modes and *)
(* counts, n2 is a dynamic node; the edges are any EdgeUniverse subset of  *)
(* at most MaxGraphEdges edges.                                            *)
(***************************************************************************)
CountVals == {Undefined} \cup {Num(k) : k \in 0..MaxCount}

StoredModes == {"strn", "str1", "num0", "undef"}

MkNode(id, type, im, ic, om, oc) ==
    [id |-> id, type |-> type, obj |-> 0,
     inputsMode |-> im, inputsCount |-> ic,
     outputsMode |-> om, outputsCount |-> oc]

MkEdge(s, sh, t, th) ==
    [source |-> s, sourceHandle |-> sh, target |-> t, targetHandle |-> th]

EdgeUniverse ==
    {MkEdge("n2", out_0, "n1", th) : th \in {in_0, in_1, port_a, NullHandle}}
    \cup {MkEdge("n1", sh, "n2", in_0) : sh \in {out_0, out_1, NullHandle}}
    \cup {MkEdge("n1", out_0, "n1", in_0)}

NoGraph == [present |-> FALSE, nodes |-> << >>, edges |-> << >>]

InitReconcile ==
    /\ \E im \in StoredModes, om \in StoredModes, ic \in CountVals, oc \in CountVals :
          nodes = << MkNode("n1", "add", im, ic, om, oc),
                     MkNode("n2", "add", "strn", Num(1), "strn", Num(1)) >>
    /\ \E S \in SUBSET EdgeUniverse :
          /\ Cardinality(S) <= MaxGraphEdges
          /\ edges = SetToSeq(S)
    /\ idRef = 3
    /\ saved = NoGraph
    /\ passes = 0
    /\ SyncIdle
    /\ HooksIdle

\* useFlowStateSync: setNodes((nds) => normalizeAllNodesIO(nds, edges))
ReconcilePass ==
    /\ passes < MaxPasses
    /\ nodes' = normalizeAllNodesIO(Held(nodes), edges)
    /\ passes' = passes + 1
    /\ UNCHANGED <<edges, idRef, saved>>
    /\ UNCHANGED <<wsVars, execVars, syncVars>>

NextReconcile == ReconcilePass

SpecReconcile == InitReconcile /\ [][NextReconcile]_vars

(***************************************************************************)
(* Properties of one reconciliation pass.                                  *)
(***************************************************************************)
isDynInputsNode(n) == normalizeIOMode(n.inputsMode) = "strn"

isDynOutputsNode(n) == normalizeIOMode(n.outputsMode) = "strn"

\* The distinct input (in_*) handle ids of edges whose target is the node.
DistinctInputHandles(id) ==
    Cardinality({e.targetHandle : e \in {x \in Range(edges) :
        x.target = id /\ startsWith(x.targetHandle, <<"i", "n", "_">>)}})

DistinctOutputHandles(id) ==
    Cardinality({e.sourceHandle : e \in {x \in Range(edges) :
        x.source = id /\ startsWith(x.sourceHandle, <<"o", "u", "t", "_">>)}})

\* C1 (as claimed): after a reconciliation pass every node with Dynamic input
\* mode stores inputsCount = distinct used input handles + 1, and every node
\* with Dynamic output mode stores outputsCount = distinct used output
\* handles + 1, whatever count was stored before.
C1_CountsStoredAfterPass ==
    passes >= 1 =>
        \A i \in DOMAIN nodes :
            /\ isDynInputsNode(nodes[i]) =>
                  nodes[i].inputsCount = Num(DistinctInputHandles(nodes[i].id) + 1)
            /\ isDynOutputsNode(nodes[i]) =>
                  nodes[i].outputsCount = Num(DistinctOutputHandles(nodes[i].id) + 1)

\* C2: reconciliation is idempotent: the second pass over the result of the
\* first pass (same edges) returns every node unchanged, the same object
\* with the same data.
C2_Idempotent == [][passes = 1 /\ passes' = 2 => nodes' = Held(nodes)]_vars

\* C2 witness: a second pass has run over a graph whose first pass had
\* updated a node (n1 with one used input handle, so inputsCount 2).
C2_Witness ==
    /\ passes = 2
    /\ nodes[1].inputsMode = "strn"
    /\ nodes[1].inputsCount = Num(2)
    /\ Len(edges) = 1

(***************************************************************************)
(* Editing session: hooks/useFlowStateSync.ts, flow/FlowInner.tsx,         *)
(* flow/FlowController.tsx, hooks/useWorkspacePersistence.ts.  Every       *)
(* change of the edges state is followed by the reconciliation effect      *)
(* (useFlowStateSync.ts:35-37) before the next event is handled.           *)
(***************************************************************************)
NodeIdTable == <<"n1", "n2", "n3", "n4", "n5">>

\* nextId(): `n${idRef.current++}`
nextId(k) == NodeIdTable[k]

\* The node-type catalog pushed by the backend (NODE_CONFIG): type and
\* default_data, as raw JSON values.
Palette ==
    { [type |-> "add", inputsMode |-> "strn", inputsCount |-> Num(0),
       outputsMode |-> "strn", outputsCount |-> Undefined],
      [type |-> "fixedValue", inputsMode |-> "num0", inputsCount |-> Undefined,
       outputsMode |-> "str1", outputsCount |-> Undefined] }

\* FlowInner.tsx keeps its own normalizer, which tests the string forms only.
FlowInner_normalizeIOMode(mode) ==
    IF mode = "str0" THEN "num0"
    ELSE IF mode = "str1" THEN "num1"
    ELSE IF mode = "strn" THEN "strn"
    ELSE "num1"

\* Math.max(count ?? 1, 1)
clampCount(c) == IF c.fin THEN Num(Max(c.n, 1)) ELSE Num(1)

\* addNodeByType: the node built from the palette entry.
newNodeFromSpec(id, spec) ==
    LET im == FlowInner_normalizeIOMode(spec.inputsMode)
        om == FlowInner_normalizeIOMode(spec.outputsMode)
    IN  MkNode(id, spec.type,
               im, IF im = "strn" THEN clampCount(spec.inputsCount) ELSE spec.inputsCount,
               om, IF om = "strn" THEN clampCount(spec.outputsCount) ELSE spec.outputsCount)

NodeIdsOf(ns) == {ns[i].id : i \in DOMAIN ns}

connectionExists(e, es) == \E i \in DOMAIN es : es[i] = e

\* @xyflow/react addEdge: appends the connection unless it has no source or
\* target or the same connection is already present.
addEdge(connection, es) ==
    IF connectionExists(connection, es) THEN es ELSE Append(es, connection)

RemoveAt(s, S) == 
    LET keep == {i \in DOMAIN s : i \notin S}
        F[k \in 0..Len(s)] ==
            IF k = 0 THEN << >>
            ELSE IF k \in keep THEN Append(F[k - 1], s[k]) ELSE F[k - 1]
    IN  F[Len(s)]

SourceHandles == {out_0}

TargetHandles == {in_0, in_1}

InitEdit ==
    /\ nodes = << >>
    /\ edges = << >>
    /\ idRef = 1
    /\ saved = NoGraph
    /\ passes = 0
    /\ SyncIdle
    /\ HooksIdle

\* FlowInner.addNodeByType, with or without a pending connection dragged from
\* an existing handle (fromNodeId, fromHandleId).
AddNodeByType ==
    /\ idRef <= MaxNodes
    /\ \E spec \in Palette :
          LET id == nextId(idRef)
              newNode == newNodeFromSpec(id, spec)
          IN  \/ /\ nodes' = Append(Held(nodes), Spread(newNode))
                 /\ edges' = edges
              \/ /\ Len(edges) < MaxEdges
                 /\ \E fromNodeId \in NodeIdsOf(nodes), fromHandleId \in SourceHandles :
                       /\ edges' = Append(edges, MkEdge(fromNodeId, fromHandleId, id, in_0))
                       /\ nodes' = normalizeAllNodesIO(
                                       Append(Held(nodes), Spread(newNode)), edges')
    /\ idRef' = idRef + 1
    /\ UNCHANGED <<saved, passes>>
    /\ UNCHANGED <<wsVars, execVars, syncVars>>

\* useFlowStateSync.onConnect, then the reconciliation effect.
OnConnect ==
    /\ Len(edges) < MaxEdges
    /\ \E s \in NodeIdsOf(nodes), t \in NodeIdsOf(nodes),
          sh \in SourceHandles, th \in TargetHandles :
          /\ edges' = addEdge(MkEdge(s, sh, t, th), edges)
          /\ edges' # edges
          /\ nodes' = normalizeAllNodesIO(Held(nodes), edges')
    /\ UNCHANGED <<idRef, saved, passes>>
    /\ UNCHANGED <<wsVars, execVars, syncVars>>

\* useFlowStateSync.onEdgesChange with a remove change, then the effect.
OnEdgesChangeRemove ==
    /\ \E i \in DOMAIN edges :
          /\ edges' = RemoveAt(edges, {i})
          /\ nodes' = normalizeAllNodesIO(Held(nodes), edges')
    /\ UNCHANGED <<idRef, saved, passes>>
    /\ UNCHANGED <<wsVars, execVars, syncVars>>

\* JSON.stringify / response.json(): plain data in fresh objects.
jsonRoundTrip(ns) == [i \in DOMAIN ns |-> Spread(ns[i])]

\* useWorkspacePersistence.saveWorkspace
SaveWorkspace ==
    /\ nodes # << >>
    /\ saved' = [present |-> TRUE, nodes |-> jsonRoundTrip(nodes), edges |-> edges]
    /\ saved' # saved
    /\ UNCHANGED <<nodes, edges, idRef, passes>>
    /\ UNCHANGED <<wsVars, execVars, syncVars>>

\* LeftPanel.handleLoadWorkspace -> FlowController.handleLoadWorkspaceFromPanel:
\* setNodes(processedNodes); setEdges(newEdges); then the effect.
LoadWorkspace ==
    /\ saved.present
    /\ edges' = saved.edges
    /\ nodes' = normalizeAllNodesIO(saved.nodes, edges')
    /\ UNCHANGED <<idRef, saved, passes>>
    /\ UNCHANGED <<wsVars, execVars, syncVars>>

NextEdit ==
    \/ AddNodeByType
    \/ OnConnect
    \/ OnEdgesChangeRemove
    \/ SaveWorkspace
    \/ LoadWorkspace

SpecEdit == InitEdit /\ [][NextEdit]_vars

\* C3: in every state of the editing session every node whose inputsMode is
\* Dynamic stores an inputsCount that is a number >= 1, and every node whose
\* outputsMode is Dynamic stores an outputsCount that is a number >= 1.
C3_DynamicCountsAtLeastOne ==
    \A i \in DOMAIN nodes :
        /\ isDynInputsNode(nodes[i]) =>
              nodes[i].inputsCount.fin /\ nodes[i].inputsCount.n >= 1
        /\ isDynOutputsNode(nodes[i]) =>
              nodes[i].outputsCount.fin /\ nodes[i].outputsCount.n >= 1

\* C3 witness: a graph was saved while a dynamic node had two inputs and an
\* edge; the editor now has no edge and that node is back at one input.
C3_Witness ==
    /\ saved.present
    /\ Len(saved.edges) >= 1
    /\ edges = << >>
    /\ \E i \in DOMAIN nodes, j \in DOMAIN saved.nodes :
          /\ nodes[i].id = saved.nodes[j].id
          /\ isDynInputsNode(nodes[i])
          /\ saved.nodes[j].inputsCount = Num(2)
          /\ nodes[i].inputsCount = Num(1)

(***************************************************************************)
(* Connection manager: hooks/useWsClient.ts                                *)
(*                                                                         *)
(* A transport is an entry of socks.  Its handlers close over the effect   *)
(* run that created it: that run's `cancelled` is true once the run has    *)
(* been cleaned up, i.e. when it is not the latest run or the latest run   *)
(* has been torn down.                                                     *)
(***************************************************************************)
backoffBaseMs == 750

backoffMaxMs == 10000

Min(a, b) == IF a <= b THEN a ELSE b

RECURSIVE Pow2(_)
Pow2(k) == IF k = 0 THEN 1 ELSE 2 * Pow2(k - 1)

\* A delay that doubles without a cap.
backoffDelayUncapped(retry) == backoffBaseMs * Pow2(retry)

\* Math.min(backoffBaseMs * Math.pow(2, retry), backoffMaxMs)
backoffDelay(retry) == Min(backoffBaseMs * Pow2(retry), backoffMaxMs)

\* A flag that the teardown of the latest run does not set.
cancelledOnlyWhenSuperseded(g) == g # gen

cancelled(g) == g # gen \/ ~mounted

readyState(id) == IF id = 0 THEN "NONE" ELSE socks[id].state

\* WebSocket.close(): a connecting or open transport starts closing; the close
\* event follows later.
wsClose(ss, id) ==
    IF id = 0 THEN ss
    ELSE [ss EXCEPT ![id].state =
              IF @ \in {"CONNECTING", "OPEN"} THEN "CLOSING" ELSE @]

\* connect() of effect run g, reached with cancelled false:
\* setStatus('connecting'); ws = new WebSocket(url); wsRef.current = ws
connectBody(g, ss) ==
    /\ status' = "connecting"
    /\ socks' = Append(ss, [state |-> "CONNECTING", gen |-> g])
    /\ wsRef' = Len(ss) + 1

\* The effect body on mount: cancelled = false; connect()
EffectMount ==
    /\ gen = 0
    /\ Len(socks) < MaxSockets
    /\ gen' = 1
    /\ mounted' = TRUE
    /\ connectBody(1, socks)
    /\ UNCHANGED <<hbRef, hbTimers, retriesRef, manualCloseRef, timers, opts,
                   lastMessage, lastJson, sent, pings, sendLog, closeCalled>>
    /\ UNCHANGED <<graphVars, execVars, syncVars>>

\* The effect cleanup: cancelled = true; manualCloseRef.current = true;
\* stopHeartbeat(); wsRef.current?.close(); wsRef.current = null
EffectCleanup ==
    /\ mounted
    /\ mounted' = FALSE
    /\ manualCloseRef' = TRUE
    /\ hbRef' = FALSE
    /\ hbTimers' = IF hbRef THEN hbTimers - 1 ELSE hbTimers
    /\ socks' = wsClose(socks, wsRef)
    /\ wsRef' = 0
    /\ UNCHANGED <<status, retriesRef, gen, timers, opts, lastMessage, lastJson,
                   sent, pings, sendLog, closeCalled>>
    /\ UNCHANGED <<graphVars, execVars, syncVars>>

\* The effect runs again with options o: the cleanup of the previous run, then
\* the effect body.
rerunEffect(o) ==
    /\ mounted
    /\ gen < MaxGens
    /\ Len(socks) < MaxSockets
    /\ opts' = o
    /\ gen' = gen + 1
    /\ mounted' = TRUE
    /\ manualCloseRef' = TRUE
    /\ hbRef' = FALSE
    /\ hbTimers' = IF hbRef THEN hbTimers - 1 ELSE hbTimers
    /\ connectBody(gen + 1, wsClose(socks, wsRef))
    /\ UNCHANGED <<retriesRef, timers, lastMessage, lastJson, sent, pings, sendLog,
                   closeCalled>>
    /\ UNCHANGED <<graphVars, execVars, syncVars>>

\* The url or an option among the effect's dependencies changed, or
\* React.StrictMode ran the effect a second time on mount.
EffectRerun == \E o \in OptionSets : rerunEffect(o)

\* A startHeartbeat that returns early only when the heartbeat is disabled.
startHeartbeatReturnsWhenDisabled == opts.heartbeatMs = 0

\* startHeartbeat: if (!options.heartbeatMs || hbRef.current) return
startHeartbeatReturns == opts.heartbeatMs = 0 \/ hbRef

\* An onopen that leaves the retry counter as it is.
OnOpenKeepingRetries ==
    \E s \in DOMAIN socks :
        /\ socks[s].state = "CONNECTING"
        /\ socks' = [socks EXCEPT ![s].state = "OPEN"]
        /\ status' = "open"
        /\ IF startHeartbeatReturns
           THEN UNCHANGED <<hbRef, hbTimers>>
           ELSE hbRef' = TRUE /\ hbTimers' = hbTimers + 1
        /\ UNCHANGED <<wsRef, retriesRef, manualCloseRef, gen, mounted, timers, opts,
                       lastMessage, lastJson, sent, pings, sendLog, closeCalled>>
        /\ UNCHANGED <<graphVars, execVars, syncVars>>

\* ws.onopen: retriesRef.current = 0; setStatus('open'); startHeartbeat()
OnOpen ==
    \E s \in DOMAIN socks :
        /\ socks[s].state = "CONNECTING"
        /\ socks' = [socks EXCEPT ![s].state = "OPEN"]
        /\ retriesRef' = 0
        /\ status' = "open"
        /\ IF startHeartbeatReturns
           THEN UNCHANGED <<hbRef, hbTimers>>
           ELSE hbRef' = TRUE /\ hbTimers' = hbTimers + 1
        /\ UNCHANGED <<wsRef, manualCloseRef, gen, mounted, timers, opts, lastMessage,
                       lastJson, sent, pings, sendLog, closeCalled>>
        /\ UNCHANGED <<graphVars, execVars, syncVars>>

\* The peer or the network starts closing an open transport: readyState
\* leaves OPEN before the close event is dispatched.
NetBeginClose ==
    \E s \in DOMAIN socks :
        /\ socks[s].state = "OPEN"
        /\ socks' = [socks EXCEPT ![s].state = "CLOSING"]
        /\ UNCHANGED <<status, wsRef, hbRef, hbTimers, retriesRef, manualCloseRef, gen,
                       mounted, timers, opts, lastMessage, lastJson, sent, pings,
                       sendLog, closeCalled>>
        /\ UNCHANGED <<graphVars, execVars, syncVars>>

\* A decision that ignores the manual-close flag.
willReconnectIgnoringManualClose(s) ==
    /\ ~cancelled(socks[s].gen)
    /\ opts.autoreconnect

\* The decision at the end of ws.onclose (useWsClient.ts:132-146).
willReconnect(s) ==
    /\ ~cancelled(socks[s].gen)
    /\ opts.autoreconnect
    /\ ~manualCloseRef

\* A retry test that lets one more attempt through.
underRetryLimitInclusive(retry) == retry <= opts.maxRetries

\* retry < (options.maxRetries ?? Infinity)
underRetryLimit(retry) == retry < opts.maxRetries

\* An onclose that also fails the run of the execution session.
OnCloseFailingRun ==
    \E s \in DOMAIN socks :
        /\ socks[s].state # "CLOSED"
        /\ socks' = [socks EXCEPT ![s].state = "CLOSED"]
        /\ hbRef' = FALSE
        /\ hbTimers' = IF hbRef THEN hbTimers - 1 ELSE hbTimers
        /\ wsRef' = 0
        /\ IF willReconnect(s)
           THEN /\ retriesRef' = retriesRef + 1
                /\ IF underRetryLimit(retriesRef)
                   THEN /\ status' = "connecting"
                        /\ timers' = timers \cup
                              {[gen |-> socks[s].gen, delay |-> backoffDelay(retriesRef)]}
                   ELSE /\ status' = "closed"
                        /\ timers' = timers
           ELSE /\ status' = "closed"
                /\ UNCHANGED <<retriesRef, timers>>
        /\ executionState' =
              IF executionState.status = "running"
              THEN [executionState EXCEPT !.status = "error"]
              ELSE executionState
        /\ UNCHANGED <<manualCloseRef, gen, mounted, opts, lastMessage, lastJson, sent,
                       pings, sendLog, closeCalled>>
        /\ UNCHANGED <<graphVars, serialized, jsonPending, history, syncVars>>

\* ws.onclose: setStatus('closed'); stopHeartbeat(); wsRef.current = null;
\* then the reconnect decision.
OnClose ==
    \E s \in DOMAIN socks :
        /\ socks[s].state # "CLOSED"
        /\ socks' = [socks EXCEPT ![s].state = "CLOSED"]
        /\ hbRef' = FALSE
        /\ hbTimers' = IF hbRef THEN hbTimers - 1 ELSE hbTimers
        /\ wsRef' = 0
        /\ IF willReconnect(s)
           THEN /\ retriesRef' = retriesRef + 1
                /\ IF underRetryLimit(retriesRef)
                   THEN /\ status' = "connecting"
                        /\ timers' = timers \cup
                              {[gen |-> socks[s].gen, delay |-> backoffDelay(retriesRef)]}
                   ELSE /\ status' = "closed"
                        /\ timers' = timers
           ELSE /\ status' = "closed"
                /\ UNCHANGED <<retriesRef, timers>>
        /\ UNCHANGED <<manualCloseRef, gen, mounted, opts, lastMessage, lastJson, sent,
                       pings, sendLog, closeCalled>>
        /\ UNCHANGED <<graphVars, execVars, syncVars>>

\* What the backend may send: text that is not JSON, a node configuration,
\* progress of run R1 (with and without a total), the completion of run R1
\* and the failure of run R1.
InboundPayloads ==
    { [json |-> FALSE, value |-> BlankMsg("raw")],
      [json |-> TRUE, value |-> BlankMsg("NODE_CONFIG")],
      [json |-> TRUE,
       value |-> Msg("EXECUTION_STATUS", "R1", "n1", 3, 0, 0, 0, "undefined", "undefined")],
      [json |-> TRUE,
       value |-> Msg("EXECUTION_STATUS", "R1", "n2", 0, 0, 0, 0, "undefined", "undefined")],
      [json |-> TRUE,
       value |-> Msg("EXECUTION_COMPLETE", "R1", "undefined", 2, 1, 1, 5, "undefined",
                     "undefined")],
      [json |-> TRUE,
       value |-> Msg("EXECUTION_ERROR", "R1", "undefined", 0, 0, 0, 0, "boom",
                     "undefined")] }

\* An onmessage that leaves the parsed value as it was when the data is not
\* JSON.
onmessageKeepingJson(payloads) ==
    \E s \in DOMAIN socks, p \in payloads :
        /\ socks[s].state = "OPEN"
        /\ lastMessage' = p
        /\ lastJson' = IF p.json THEN p.value ELSE lastJson
        /\ jsonPending' = p.json
        /\ UNCHANGED <<status, wsRef, socks, hbRef, hbTimers, retriesRef,
                       manualCloseRef, gen, mounted, timers, opts, sent, pings,
                       sendLog, closeCalled>>
        /\ UNCHANGED <<graphVars, executionState, serialized, history, syncVars>>

\* ws.onmessage: setLastMessage(ev); setLastJson(JSON.parse(ev.data)), or
\* setLastJson(null) when the data is not JSON.  A parsed message is a new
\* object, so the effects that depend on lastJson are due to run with it; a
\* message that has not been handled yet is overwritten.
onmessage(payloads) ==
    \E s \in DOMAIN socks, p \in payloads :
        /\ socks[s].state = "OPEN"
        /\ lastMessage' = p
        /\ lastJson' = IF p.json THEN p.value ELSE NullJson
        /\ jsonPending' = p.json
        /\ UNCHANGED <<status, wsRef, socks, hbRef, hbTimers, retriesRef,
                       manualCloseRef, gen, mounted, timers, opts, sent, pings,
                       sendLog, closeCalled>>
        /\ UNCHANGED <<graphVars, executionState, serialized, history, syncVars>>

\* The backend sends one of InboundPayloads.
OnMessage == onmessage(InboundPayloads)

\* A pending setTimeout(connect, delay) fires: connect() returns at once when
\* its effect run is cancelled.
TimerFire ==
    \E t \in timers :
        /\ timers' = timers \ {t}
        /\ IF cancelled(t.gen)
           THEN UNCHANGED <<status, socks, wsRef>>
           ELSE /\ Len(socks) < MaxSockets
                /\ connectBody(t.gen, socks)
        /\ UNCHANGED <<hbRef, hbTimers, retriesRef, manualCloseRef, gen, mounted, opts,
                       lastMessage, lastJson, sent, pings, sendLog, closeCalled>>
        /\ UNCHANGED <<graphVars, execVars, syncVars>>

\* TimerFire and EffectRerun in the runs that follow the manager through at
\* most SocketCap transports.
TimerFireCapped == TimerFire /\ Len(socks') <= SocketCap

EffectRerunCapped == EffectRerun /\ Len(socks') <= SocketCap

\* The heartbeat interval fires: ping when wsRef.current is open.
HeartbeatTick ==
    /\ hbTimers > 0
    /\ pings < MaxPings
    /\ readyState(wsRef) = "OPEN"
    /\ pings' = pings + 1
    /\ UNCHANGED <<status, wsRef, socks, hbRef, hbTimers, retriesRef, manualCloseRef,
                   gen, mounted, timers, opts, lastMessage, lastJson, sent, sendLog,
                   closeCalled>>
    /\ UNCHANGED <<graphVars, execVars, syncVars>>

\* A send() that tests only that a transport is held, not that it is open.
sendOkAnyReadyState == wsRef # 0

\* send(data): the value it returns.
sendOk == wsRef # 0 /\ readyState(wsRef) = "OPEN"

\* send(data): the frames handed to the transport after the call.
sendFrames(data) == IF sendOk THEN Append(sent, [sock |-> wsRef, data |-> data]) ELSE sent

\* A text payload that is not one of the protocol's messages.
textPayload ==
    [json |-> FALSE,
     value |-> [type |-> "text", play_node_id |-> "", workspace_id |-> "",
                graph |-> [nodes |-> << >>, connections |-> << >>]]]

\* A caller calls send(data).
Send ==
    /\ Len(sendLog) < MaxSends
    /\ sendLog' = Append(sendLog, sendOk)
    /\ sent' = sendFrames(textPayload)
    /\ UNCHANGED <<status, wsRef, socks, hbRef, hbTimers, retriesRef, manualCloseRef,
                   gen, mounted, timers, opts, lastMessage, lastJson, pings,
                   closeCalled>>
    /\ UNCHANGED <<graphVars, execVars, syncVars>>

\* close(): manualCloseRef.current = true; stopHeartbeat();
\* setStatus('closing') when the transport is open; wsRef.current?.close()
Close ==
    /\ manualCloseRef' = TRUE
    /\ closeCalled' = TRUE
    /\ hbRef' = FALSE
    /\ hbTimers' = IF hbRef THEN hbTimers - 1 ELSE hbTimers
    /\ status' = IF readyState(wsRef) = "OPEN" THEN "closing" ELSE status
    /\ socks' = wsClose(socks, wsRef)
    /\ UNCHANGED <<wsRef, retriesRef, gen, mounted, timers, opts, lastMessage, lastJson,
                   sent, pings, sendLog>>
    /\ UNCHANGED <<graphVars, execVars, syncVars>>

NextWs ==
    \/ EffectMount
    \/ EffectCleanup
    \/ EffectRerunCapped
    \/ OnOpen
    \/ OnMessage
    \/ NetBeginClose
    \/ OnClose
    \/ TimerFireCapped
    \/ HeartbeatTick
    \/ Send
    \/ Close

\* A component that uses the manager alone, with any of the option sets.
InitWs ==
    /\ nodes = << >>
    /\ edges = << >>
    /\ idRef = 1
    /\ saved = NoGraph
    /\ passes = 0
    /\ SyncIdle
    /\ \E o \in OptionSets : WsIdle(o)
    /\ ExecIdle

SpecWs == InitWs /\ [][NextWs]_vars

(***************************************************************************)
(* Properties of the connection manager                                    *)
(***************************************************************************)
\* C4: once close() has been called, the manager (within the same run of its
\* connecting effect) creates no transport and schedules no reconnect,
\* whatever its state was when close() was called.
C4_NoTransportAfterClose ==
    [][closeCalled /\ gen' = gen =>
          Len(socks') = Len(socks) /\ timers' \subseteq timers]_vars

\* C10: a send() made while the status is not open returns false, hands
\* nothing to the transport and leaves status, retry counter, transport
\* reference, heartbeat timer and last message as they were.
C10_SendWhileNotOpen ==
    [][Len(sendLog') = Len(sendLog) + 1 /\ status # "open" =>
          /\ sendLog'[Len(sendLog')] = FALSE
          /\ sent' = sent
          /\ pings' = pings
          /\ UNCHANGED <<status, retriesRef, wsRef, socks, hbRef, hbTimers, timers,
                         manualCloseRef, lastMessage, lastJson>>]_vars

\* A send() was made, and failed, while the first transport was connecting.
C10_Witness ==
    /\ sendLog = <<FALSE>>
    /\ status = "connecting"
    /\ Len(socks) = 1
    /\ socks[1].state = "CONNECTING"
    /\ wsRef = 1

(***************************************************************************)
(* Graph validator and serializer: utils/graphConverter.ts                 *)
(***************************************************************************)
Digits == <<"0", "1", "2", "3", "4", "5", "6", "7", "8", "9">>

isDigit(c) == \E d \in DOMAIN Digits : Digits[d] = c

digitValue(c) == (CHOOSE d \in DOMAIN Digits : Digits[d] = c) - 1

\* The number of digits that end h.
RECURSIVE trailingDigits(_)
trailingDigits(h) ==
    IF h = << >> \/ ~isDigit(h[Len(h)]) THEN 0
    ELSE 1 + trailingDigits(SubSeq(h, 1, Len(h) - 1))

\* parseInt(digits, 10)
RECURSIVE parseInt(_)
parseInt(ds) ==
    IF ds = << >> THEN 0
    ELSE 10 * parseInt(SubSeq(ds, 1, Len(ds) - 1)) + digitValue(ds[Len(ds)])

\* An index read from any digits that end the id, with or without a "_".
extractHandleIndexAnyDigits(handleId) ==
    LET k == trailingDigits(handleId)
    IN  parseInt(SubSeq(handleId, Len(handleId) - k + 1, Len(handleId)))

\* extractHandleIndex: the digits after the last "_" when the id ends in
\* /_(\d+)$/, otherwise 0.
extractHandleIndex(handleId) ==
    LET k == trailingDigits(handleId)
    IN  IF handleId = NullHandle THEN 0
        ELSE IF k > 0 /\ Len(handleId) > k /\ handleId[Len(handleId) - k] = "_"
             THEN parseInt(SubSeq(handleId, Len(handleId) - k + 1, Len(handleId)))
             ELSE 0

\* getNodePort: portMap[nodeType] || 3000
getNodePort(nodeType) ==
    CASE nodeType = "add" -> 3000
      [] nodeType = "subtract" -> 3001
      [] nodeType = "fixedValue" -> 3010
      [] nodeType = "fsBrowser" -> 3011
      [] nodeType = "playButton" -> 3020
      [] nodeType = "comfyPlay" -> 3021
      [] OTHER -> 3000

\* The function-valued members of the data bag of a node the editor holds
\* when a trigger is issued: the decoration effect of FlowController has
\* given every Play node onPin, onUnpin and onExecute.
dataCallbacks(node) ==
    IF node.type = "playButton" \/ node.type = "comfyPlay"
    THEN {"onPin", "onUnpin", "onExecute"}
    ELSE {}

\* convertNodes: the nodes of this model carry no label, so the label is the
\* type.  data is { ...node.data, onChange: undefined }: every member of the
\* bag is copied, the function-valued ones (callbacks) included, and onChange
\* is set to undefined.
convertNodes(ns) ==
    [i \in DOMAIN ns |->
        [id |-> ns[i].id,
         node_type |-> ns[i].type,
         port |-> getNodePort(ns[i].type),
         label |-> ns[i].type,
         data |-> [inputsMode |-> ns[i].inputsMode, inputsCount |-> ns[i].inputsCount,
                   outputsMode |-> ns[i].outputsMode, outputsCount |-> ns[i].outputsCount,
                   onChange |-> "undefined",
                   callbacks |-> dataCallbacks(ns[i]) \ {"onChange"}]]]

convertEdges(es) ==
    [i \in DOMAIN es |->
        [from_node_id |-> es[i].source,
         from_output_index |-> extractHandleIndex(es[i].sourceHandle),
         to_node_id |-> es[i].target,
         to_input_index |-> extractHandleIndex(es[i].targetHandle)]]

convertGraphForBackend(ns, es) ==
    [nodes |-> convertNodes(ns), connections |-> convertEdges(es)]

isPlayNode(n) == n.type = "playButton" \/ n.type = "comfyPlay"

findPlayNodes(ns) == SelectSeq(ns, isPlayNode)

emptyGraphError == "O grafo está vazio. Adicione pelo menos um node."

noPlayNodeError ==
    "Nenhum node Play encontrado. Adicione um node Play para executar o workflow."

\* The nodes the validator warns about: on no edge and not a Play node.
isolatedNodes(ns, es) ==
    LET connectedNodeIds == {es[i].source : i \in DOMAIN es} \cup
                            {es[i].target : i \in DOMAIN es}
        isolated(n) == /\ n.id \notin connectedNodeIds
                       /\ n.type # "playButton"
                       /\ n.type # "comfyPlay"
    IN  SelectSeq(ns, isolated)

\* A validation that does not look at the number of nodes.
validateGraphWithoutEmptyCheck(ns, es) ==
    LET errors == IF Len(findPlayNodes(ns)) = 0 THEN <<noPlayNodeError>> ELSE << >>
    IN  [valid |-> Len(errors) = 0, errors |-> errors]

\* A validation that stops at the first error it finds.
validateGraphFirstErrorOnly(ns, es) ==
    LET errors ==
            IF Len(ns) = 0 THEN <<emptyGraphError>>
            ELSE IF Len(findPlayNodes(ns)) = 0 THEN <<noPlayNodeError>>
            ELSE << >>
    IN  [valid |-> Len(errors) = 0, errors |-> errors]

\* validateGraphForExecution: isolated nodes are only logged.
validateGraphForExecution(ns, es) ==
    LET errors ==
            (IF Len(ns) = 0 THEN <<emptyGraphError>> ELSE << >>)
            \o (IF Len(findPlayNodes(ns)) = 0 THEN <<noPlayNodeError>> ELSE << >>)
    IN  [valid |-> Len(errors) = 0, errors |-> errors]

\* A join that keeps only the first element.
joinFirstOnly(strs, sep) == IF strs = << >> THEN "" ELSE strs[1]

\* Array.prototype.join
RECURSIVE join(_, _)
join(strs, sep) ==
    IF strs = << >> THEN ""
    ELSE IF Len(strs) = 1 THEN strs[1]
    ELSE strs[1] \o sep \o join(Tail(strs), sep)

(***************************************************************************)
(* Execution session: useWorkflowExecution                                 *)
(***************************************************************************)
\* history: every event of the session while there are at most MaxHistory of
\* them; after that an EarlierEvents marker followed by the latest ones.
EarlierEvents == BlankMsg("EARLIER")

TriggerEvent == BlankMsg("TRIGGER")

ResetEvent == BlankMsg("RESET")

remember(h, e) ==
    IF Len(h) < MaxHistory THEN Append(h, e)
    ELSE <<EarlierEvents>> \o SubSeq(h, 3, Len(h)) \o <<e>>

\* A test that only asks whether the manager holds a transport.
clientHoldsTransport == wsRef # 0

\* The test of executeWorkflow before it sends: client.status === 'open'
clientIsOpen == status = "open"

notConnectedError(st) == "WebSocket não conectado (status: " \o st \o ")"

\* What JSON.stringify keeps of a serialized graph: a member whose value is a
\* function or undefined is left out of the text.
jsonGraph(g) ==
    [g EXCEPT !.nodes =
        [i \in DOMAIN g.nodes |->
            [g.nodes[i] EXCEPT !.data.callbacks = {}, !.data.onChange = "absent"]]]

\* JSON.stringify(message): the text of the execute request.
stringify(message) == [json |-> TRUE, value |-> [message EXCEPT !.graph = jsonGraph(@)]]

\* The workspace label the editor holds.
workspaceName == "workspace-1"

\* executeWorkflow(nodes, edges, workspaceName), called with the editor's graph.
ExecuteWorkflow ==
    LET validation == validateGraphForExecution(nodes, edges)
        playNodes == findPlayNodes(nodes)
        backendGraph == convertGraphForBackend(nodes, edges)
        message == [type |-> "EXECUTE_PLAY", play_node_id |-> playNodes[1].id,
                    workspace_id |-> workspaceName, graph |-> backendGraph]
    IN  /\ IF ~validation.valid
           THEN /\ executionState' =
                      [initialState EXCEPT !.status = "error",
                                           !.error = join(validation.errors, "; ")]
                /\ UNCHANGED <<serialized, sent, sendLog>>
           ELSE IF Len(playNodes) = 0
           THEN /\ executionState' =
                      [initialState EXCEPT !.status = "error",
                                           !.error = "Nenhum node Play encontrado"]
                /\ UNCHANGED <<serialized, sent, sendLog>>
           ELSE /\ serialized' = serialized \cup {backendGraph}
                /\ IF clientIsOpen
                   THEN /\ Len(sendLog) < MaxSends
                        /\ sendLog' = Append(sendLog, sendOk)
                        /\ sent' = sendFrames(stringify(message))
                        /\ executionState' = [initialState EXCEPT !.status = "running"]
                   ELSE /\ executionState' =
                              [initialState EXCEPT !.status = "error",
                                                   !.error = notConnectedError(status)]
                        /\ UNCHANGED <<sent, sendLog>>
        /\ history' = remember(history, TriggerEvent)
        /\ UNCHANGED <<status, wsRef, socks, hbRef, hbTimers, retriesRef, manualCloseRef,
                       gen, mounted, timers, opts, lastMessage, lastJson, pings,
                       closeCalled, jsonPending>>
        /\ UNCHANGED <<graphVars, syncVars>>

\* handleExecuteFromNode(nodeId): the Play button of node nodeId was pressed.
handleExecuteFromNode(nodeId) ==
    /\ \E i \in DOMAIN nodes : nodes[i].id = nodeId /\ isPlayNode(nodes[i])
    /\ ExecuteWorkflow

ExecuteFromNode == \E nodeId \in NodeIdsOf(nodes) : handleExecuteFromNode(nodeId)

\* A progress handler that takes the total of every event, given or not.
onExecutionStatusTakingTotal(prev, message) ==
    [prev EXCEPT !.status = "running",
                 !.runId = message.run_id,
                 !.currentNode = message.current_node,
                 !.totalNodes = message.total_nodes]

\* case 'EXECUTION_STATUS'
onExecutionStatus(prev, message) ==
    [prev EXCEPT !.status = "running",
                 !.runId = message.run_id,
                 !.currentNode = message.current_node,
                 !.totalNodes = IF message.total_nodes # 0 THEN message.total_nodes
                                ELSE prev.totalNodes]

\* A completion that keeps the total of the earlier progress events.
onExecutionCompleteKeepingTotal(prev, message) ==
    [prev EXCEPT !.status = "completed",
                 !.runId = message.run_id,
                 !.executedNodes = message.executed_nodes,
                 !.cachedNodes = message.cached_nodes,
                 !.durationMs = message.duration_ms,
                 !.error = "null",
                 !.currentNode = "null"]

\* case 'EXECUTION_COMPLETE'
onExecutionComplete(prev, message) ==
    [status |-> "completed",
     runId |-> message.run_id,
     totalNodes |-> message.total_nodes,
     executedNodes |-> message.executed_nodes,
     cachedNodes |-> message.cached_nodes,
     durationMs |-> message.duration_ms,
     error |-> "null",
     currentNode |-> "null"]

\* A failure handler that records only the node the event names.
onExecutionErrorNamedOnly(prev, message) ==
    [prev EXCEPT !.status = "error",
                 !.runId = message.run_id,
                 !.error = message.error,
                 !.currentNode = message.failed_node]

\* case 'EXECUTION_ERROR'
onExecutionError(prev, message) ==
    [prev EXCEPT !.status = "error",
                 !.runId = message.run_id,
                 !.error = message.error,
                 !.currentNode = IF message.failed_node # "undefined"
                                 THEN message.failed_node ELSE prev.currentNode]

\* The effect on [client.lastJson], run with a parsed message.
MessageEffect ==
    /\ jsonPending
    /\ jsonPending' = FALSE
    /\ executionState' =
          CASE lastJson.type = "EXECUTION_STATUS" ->
                  onExecutionStatus(executionState, lastJson)
            [] lastJson.type = "EXECUTION_COMPLETE" ->
                  onExecutionComplete(executionState, lastJson)
            [] lastJson.type = "EXECUTION_ERROR" ->
                  onExecutionError(executionState, lastJson)
            [] OTHER -> executionState
    /\ history' = remember(history, lastJson)
    /\ UNCHANGED <<serialized>>
    /\ UNCHANGED <<graphVars, wsVars, syncVars>>

\* A reset that returns to idle and keeps what the last run recorded.
ResetKeepingRun ==
    /\ executionState' = [executionState EXCEPT !.status = "idle"]
    /\ history' = remember(history, ResetEvent)
    /\ UNCHANGED <<serialized, jsonPending>>
    /\ UNCHANGED <<graphVars, wsVars, syncVars>>

\* resetExecution()
ResetExecution ==
    /\ executionState' = initialState
    /\ history' = remember(history, ResetEvent)
    /\ UNCHANGED <<serialized, jsonPending>>
    /\ UNCHANGED <<graphVars, wsVars, syncVars>>

\* The graphs a trigger is issued for: the empty graph, a worker node alone, a
\* Play node alone, a Play node wired to a worker, graphs with an edge from or
\* to a node id they do not hold, and two Play nodes.
playNode(id) == MkNode(id, "playButton", "str0", Undefined, "str1", Undefined)

workerNode(id) == MkNode(id, "add", "strn", Num(1), "strn", Num(1))

ExecGraph(ns, es) == [nodes |-> ns, edges |-> es]

ExecGraphs ==
    { ExecGraph(<< >>, << >>),
      ExecGraph(<<workerNode("n1")>>, << >>),
      ExecGraph(<<playNode("n1")>>, << >>),
      ExecGraph(<<playNode("n1"), workerNode("n2")>>, <<MkEdge("n1", out_0, "n2", in_0)>>),
      ExecGraph(<<playNode("n1")>>, <<MkEdge("n1", out_0, "n9", in_1)>>),
      ExecGraph(<<playNode("n1"), workerNode("n2")>>, <<MkEdge("n9", out_0, "n2", in_0)>>),
      ExecGraph(<<workerNode("n1")>>, <<MkEdge("n1", out_0, "n9", in_0)>>),
      ExecGraph(<< >>, <<MkEdge("n1", out_0, "n2", in_0)>>),
      ExecGraph(<<playNode("n1"), playNode("n2")>>, << >>) }

InitExec ==
    /\ \E g \in ExecGraphs : nodes = g.nodes /\ edges = g.edges
    /\ idRef = 3
    /\ saved = NoGraph
    /\ passes = 0
    /\ SyncIdle
    /\ HooksIdle

NextExec ==
    \/ EffectMount
    \/ OnOpen
    \/ OnMessage
    \/ OnClose
    \/ TimerFireCapped
    \/ ExecuteWorkflow
    \/ ExecuteFromNode
    \/ MessageEffect
    \/ ResetExecution

SpecExec == InitExec /\ [][NextExec]_vars

(***************************************************************************)
(* Properties of the execution session                                     *)
(***************************************************************************)
\* An edge of es whose source or target is not the id of a node of ns.
HasDanglingEdge(ns, es) ==
    \E i \in DOMAIN es :
        es[i].source \notin NodeIdsOf(ns) \/ es[i].target \notin NodeIdsOf(ns)

\* C5: for a graph with an edge whose source or target is not a node of the
\* graph, validation reports an error, and a trigger ends in error without
\* the serializer being invoked and without an execute request being sent.
C5_DanglingEdgeRejected ==
    [][ExecuteWorkflow /\ HasDanglingEdge(nodes, edges) =>
          /\ ~validateGraphForExecution(nodes, edges).valid
          /\ executionState'.status = "error"
          /\ serialized' = serialized
          /\ sent' = sent]_vars

\* The validation messages of the graph, joined with "; ".
C6_ValidationText ==
    IF Len(nodes) = 0 THEN emptyGraphError \o "; " \o noPlayNodeError
    ELSE noPlayNodeError

\* C6: a trigger for a graph that fails validation puts the session in error
\* with the joined validation messages as its error text and every counter at
\* its initial value; nothing is serialized and nothing is sent.
C6_InvalidGraphTrigger ==
    [][ExecuteWorkflow /\ ~validateGraphForExecution(nodes, edges).valid =>
          /\ executionState' = [initialState EXCEPT !.status = "error",
                                                    !.error = C6_ValidationText]
          /\ serialized' = serialized
          /\ sent' = sent
          /\ sendLog' = sendLog]_vars

\* A trigger for the empty graph has ended in error with both messages.
C6_Witness ==
    /\ nodes = << >>
    /\ history = <<TriggerEvent>>
    /\ executionState.status = "error"
    /\ executionState.error = emptyGraphError \o "; " \o noPlayNodeError
    /\ serialized = {}
    /\ sent = << >>

\* C7: a trigger for a valid graph while the manager's status is not open puts
\* the session in error with the status in its text and sends nothing; an
\* execute request is only ever sent by a trigger made while the status is
\* open, so the failed trigger is never retried when the connection opens.
C7_TriggerWhileNotOpen ==
    [][/\ (ExecuteWorkflow /\ validateGraphForExecution(nodes, edges).valid
              /\ status # "open" =>
                 /\ executionState' =
                       [initialState EXCEPT
                           !.status = "error",
                           !.error = "WebSocket não conectado (status: " \o status \o ")"]
                 /\ sent' = sent
                 /\ sendLog' = sendLog)
       /\ (sent' # sent => ExecuteWorkflow /\ status = "open")]_vars

\* The only trigger was made while connecting and failed; the connection has
\* opened since and nothing has been sent.
C7_Witness ==
    /\ history = <<TriggerEvent>>
    /\ executionState.status = "error"
    /\ executionState.error = "WebSocket não conectado (status: connecting)"
    /\ status = "open"
    /\ sent = << >>
    /\ sendLog = << >>

ProgressOfR1 ==
    {p.value : p \in {q \in InboundPayloads :
                         q.value.type = "EXECUTION_STATUS" /\ q.value.run_id = "R1"}}

CompletionOfR1 ==
    {p.value : p \in {q \in InboundPayloads :
                         q.value.type = "EXECUTION_COMPLETE" /\ q.value.run_id = "R1"}}

\* C8: from idle, a progress event of run R1 makes the session running with
\* run id R1, and a completion of R1 that follows makes it completed with
\* exactly the completion's total, executed and cached counts and duration.
C8_ProgressThenCompletion ==
    /\ history = << >> => executionState.status = "idle"
    /\ \A p \in ProgressOfR1 :
          history = <<p>> =>
              executionState.status = "running" /\ executionState.runId = "R1"
    /\ \A p \in ProgressOfR1, c \in CompletionOfR1 :
          history = <<p, c>> =>
              executionState =
                  [status |-> "completed", runId |-> "R1",
                   totalNodes |-> c.total_nodes, executedNodes |-> c.executed_nodes,
                   cachedNodes |-> c.cached_nodes, durationMs |-> c.duration_ms,
                   error |-> "null", currentNode |-> "null"]

\* A progress event announcing three nodes, then a completion with two.
C8_Witness ==
    /\ Len(history) = 2
    /\ history[1] \in ProgressOfR1
    /\ history[1].total_nodes = 3
    /\ history[2] \in CompletionOfR1
    /\ executionState.status = "completed"
    /\ executionState.totalNodes = 2

\* C9: once the session is completed or in error, only a trigger or a reset
\* changes its state; no inbound event does.
C9_TerminalStates ==
    [][executionState.status \in {"completed", "error"}
          /\ executionState' # executionState =>
              ExecuteWorkflow \/ ResetExecution]_vars

(***************************************************************************)
(* The reconnect delay: a manager whose connection attempts have failed    *)
(* retriesRef times in a row and whose latest transport is connecting.     *)
(***************************************************************************)
InitBackoff ==
    /\ nodes = << >>
    /\ edges = << >>
    /\ idRef = 1
    /\ saved = NoGraph
    /\ passes = 0
    /\ SyncIdle
    /\ ExecIdle
    /\ status = "connecting"
    /\ wsRef = 1
    /\ socks = <<[state |-> "CONNECTING", gen |-> 1]>>
    /\ hbRef = FALSE
    /\ hbTimers = 0
    /\ retriesRef \in 0..MaxRetryStart
    /\ manualCloseRef = FALSE
    /\ gen = 1
    /\ mounted = TRUE
    /\ timers = {}
    /\ opts \in OptionSets
    /\ lastMessage = NoMessage
    /\ lastJson = NullJson
    /\ sent = << >>
    /\ pings = 0
    /\ sendLog = << >>
    /\ closeCalled = FALSE

NextBackoff ==
    \/ OnOpen
    \/ NetBeginClose
    \/ OnClose
    \/ TimerFireCapped
    \/ HeartbeatTick
    \/ Close
    \/ EffectCleanup

SpecBackoff == InitBackoff /\ [][NextBackoff]_vars

\* The delays the specification lists for retry counter values 0..4; the cap
\* from there on.
C11_ExpectedDelay(k) ==
    CASE k = 0 -> 750
      [] k = 1 -> 1500
      [] k = 2 -> 3000
      [] k = 3 -> 6000
      [] OTHER -> 10000

\* C11: the reconnect scheduled when the retry counter is k waits
\* min(750 * 2^k, 10000) ms: 750, 1500, 3000, 6000, 10000 for k = 0..4, never
\* less than the delay for k - 1 and never more than 10000.
C11_BackoffDelays ==
    [][\A t \in timers' \ timers :
          /\ t.delay = C11_ExpectedDelay(retriesRef)
          /\ t.delay <= 10000
          /\ retriesRef > 0 => t.delay >= C11_ExpectedDelay(retriesRef - 1)]_vars

\* A reconnect was scheduled with the retry counter at 4: it waits the cap.
C11_Witness ==
    /\ retriesRef = 5
    /\ \E t \in timers : t.delay = 10000

(***************************************************************************)
(* The life cycle of the connection manager alone, through MaxSockets      *)
(* transports and MaxGens runs of its effect, with any of the option sets. *)
(***************************************************************************)
NextConn ==
    \/ EffectMount
    \/ EffectCleanup
    \/ EffectRerun
    \/ OnOpen
    \/ NetBeginClose
    \/ OnClose
    \/ TimerFire
    \/ HeartbeatTick
    \/ Close

SpecConn == InitWs /\ [][NextConn]_vars

\* Transport s reports its close in this step.
ClosesNow(s) == socks[s].state # "CLOSED" /\ socks'[s].state = "CLOSED"

\* C12: in a manager still in the first run of its effect, a transport that
\* closes while auto-reconnect is on, close() has not been called, the owner
\* is not disposed and the retry counter is below maxRetries schedules
\* exactly one reconnect and adds one to the retry counter; a transport that
\* closes in any other case leaves the status closed and schedules nothing.
C12_ReconnectDecision ==
    [][\A s \in DOMAIN socks :
          gen = 1 /\ ClosesNow(s) =>
              IF opts.autoreconnect /\ ~closeCalled /\ mounted
                    /\ retriesRef < opts.maxRetries
              THEN /\ timers \subseteq timers'
                   /\ Cardinality(timers') = Cardinality(timers) + 1
                   /\ retriesRef' = retriesRef + 1
              ELSE /\ status' = "closed"
                   /\ timers' = timers]_vars

\* The first transport closed and its reconnect is pending.
C12_Witness ==
    /\ gen = 1
    /\ mounted
    /\ ~closeCalled
    /\ Len(socks) = 1
    /\ socks[1].state = "CLOSED"
    /\ Cardinality(timers) = 1
    /\ retriesRef = 1
    /\ status = "connecting"

\* The transports that are connecting or open.
LiveTransports == {s \in DOMAIN socks : socks[s].state \in {"CONNECTING", "OPEN"}}

\* C13: the manager has at most one transport that is connecting or open,
\* and every open transport is the one wsRef.current refers to.
C13_OneLiveTransport ==
    /\ Cardinality(LiveTransports) <= 1
    /\ \A s \in DOMAIN socks : socks[s].state = "OPEN" => wsRef = s

\* The owner has been disposed: the effect ran and its latest run was torn
\* down without a new run.
Disposed == gen >= 1 /\ ~mounted

\* C14: the teardown step sets the manual-close flag, stops the heartbeat
\* timer and leaves every pending reconnect timer cancelled; once the owner
\* is disposed no transport is created and no heartbeat ping is sent.
C14_Disposal ==
    [][/\ (mounted /\ ~mounted' =>
              /\ manualCloseRef'
              /\ ~hbRef'
              /\ hbTimers' = 0
              /\ \A t \in timers' : t.gen # gen' \/ ~mounted')
       /\ (Disposed => Len(socks') = Len(socks) /\ pings' = pings)]_vars

\* The owner was disposed while the reconnect of its only transport was
\* pending; the timer has fired since and created nothing.
C14_Witness ==
    /\ Disposed
    /\ gen = 1
    /\ Len(socks) = 1
    /\ socks[1].state = "CLOSED"
    /\ retriesRef = 1
    /\ timers = {}

\* C15: a JSON message the transport delivered stays the message that awaits
\* the session's handler until the handler has run with it: nothing replaces
\* or clears it first, so that every delivered message is handled once and in
\* delivery order.
C15_EveryMessageHandled ==
    [][jsonPending =>
          \/ jsonPending' /\ lastJson' = lastJson
          \/ ~jsonPending' /\ history' = remember(history, lastJson)]_vars

\* C16: the execute request sent when the Play button of a node is pressed is
\* an EXECUTE_PLAY message whose trigger node id is the id of that node, with
\* the editor's workspace label and the serialized graph.
C16_TriggerNodeId ==
    [][\A id \in NodeIdsOf(nodes) :
          handleExecuteFromNode(id) /\ sent' # sent =>
              LET m == sent'[Len(sent')].data.value
              IN  /\ m.type = "EXECUTE_PLAY"
                  /\ m.play_node_id = id
                  /\ m.workspace_id = workspaceName
                  /\ m.graph = jsonGraph(convertGraphForBackend(nodes, edges))]_vars

(***************************************************************************)
(* Serialization of edges, over handle ids of every shape                  *)
(***************************************************************************)
in_2 == <<"i", "n", "_", "2">>

in_12 == <<"i", "n", "_", "1", "2">>

in2 == <<"i", "n", "2">>

in_2x == <<"i", "n", "_", "2", "x">>

in_none == <<"i", "n", "_">>

out_bare == <<"o", "u", "t">>

a_1_3 == <<"a", "_", "1", "_", "3">>

SerializedSourceHandles == {NullHandle, out_0, out_1, out_bare, a_1_3}

SerializedTargetHandles == {in_0, in_2, in_12, in2, in_2x, in_none}

\* Sequences of at most n edges from the Play node n1 to the worker n2.
RECURSIVE HandleEdges(_)
HandleEdges(n) ==
    IF n = 0 THEN {<< >>}
    ELSE HandleEdges(n - 1) \cup
         { Append(es, MkEdge("n1", sh, "n2", th)) :
             es \in {e \in HandleEdges(n - 1) : Len(e) = n - 1},
             sh \in SerializedSourceHandles, th \in SerializedTargetHandles }

InitSerialize ==
    /\ nodes = <<playNode("n1"), workerNode("n2")>>
    /\ edges \in HandleEdges(MaxGraphEdges)
    /\ idRef = 3
    /\ saved = NoGraph
    /\ passes = 0
    /\ SyncIdle
    /\ HooksIdle

NextSerialize == ExecuteWorkflow \/ ResetExecution

SpecSerialize == InitSerialize /\ [][NextSerialize]_vars

\* The position of the last "_" of h, 0 when h has none.
C17_LastUnderscore(h) ==
    IF \E i \in DOMAIN h : h[i] = "_"
    THEN CHOOSE i \in DOMAIN h :
             h[i] = "_" /\ \A j \in DOMAIN h : j > i => h[j] # "_"
    ELSE 0

C17_Digit(c) ==
    CASE c = "0" -> 0 [] c = "1" -> 1 [] c = "2" -> 2 [] c = "3" -> 3
      [] c = "4" -> 4 [] c = "5" -> 5 [] c = "6" -> 6 [] c = "7" -> 7
      [] c = "8" -> 8 [] c = "9" -> 9 [] OTHER -> -1

RECURSIVE C17_Decimal(_)
C17_Decimal(ds) ==
    IF ds = << >> THEN 0
    ELSE C17_Digit(Head(ds)) * 10 ^ (Len(ds) - 1) + C17_Decimal(Tail(ds))

\* The decimal number that ends h after its last "_"; 0 without one.
C17_ExpectedIndex(h) ==
    LET u == C17_LastUnderscore(h)
        suffix == SubSeq(h, u + 1, Len(h))
    IN  IF u = 0 \/ suffix = << >> \/ \E i \in DOMAIN suffix : C17_Digit(suffix[i]) < 0
        THEN 0
        ELSE C17_Decimal(suffix)

\* C17: every serialized graph holds exactly one connection descriptor per
\* edge, in edge order, with the edge's source and target node ids and with
\* port indices equal to the decimal number that ends the handle id after its
\* last underscore, or 0 when the handle id is absent or does not end so.
C17_ConnectionPerEdge ==
    \A g \in serialized :
        /\ Len(g.connections) = Len(edges)
        /\ \A i \in DOMAIN edges :
              /\ g.connections[i].from_node_id = edges[i].source
              /\ g.connections[i].to_node_id = edges[i].target
              /\ g.connections[i].from_output_index =
                    C17_ExpectedIndex(edges[i].sourceHandle)
              /\ g.connections[i].to_input_index =
                    C17_ExpectedIndex(edges[i].targetHandle)

\* The graph with the one edge out_0 -> in_2 was serialized to a connection
\* from index 0 to index 2.
C17_Witness ==
    /\ Len(edges) = 1
    /\ edges[1].sourceHandle = out_0
    /\ edges[1].targetHandle = in_2
    /\ \E g \in serialized :
          /\ Len(g.connections) = 1
          /\ g.connections[1].from_output_index = 0
          /\ g.connections[1].to_input_index = 2

\* C18: for a graph with zero nodes, validation is invalid, its errors hold the
\* empty-graph error and beside it only the no-Play-node error that zero nodes
\* imply, and no node is reported as isolated.
C18_EmptyGraph ==
    Len(nodes) = 0 =>
        LET v == validateGraphForExecution(nodes, edges)
        IN  /\ ~v.valid
            /\ \E i \in DOMAIN v.errors : v.errors[i] = emptyGraphError
            /\ \A i \in DOMAIN v.errors :
                  v.errors[i] \in {emptyGraphError, noPlayNodeError}
            /\ isolatedNodes(nodes, edges) = << >>

\* A trigger on a graph of zero nodes and one edge ended with the two errors.
C18_Witness ==
    /\ Len(nodes) = 0
    /\ Len(edges) = 1
    /\ executionState.status = "error"
    /\ executionState.error = emptyGraphError \o "; " \o noPlayNodeError

OpensNow(s) == socks[s].state = "CONNECTING" /\ socks'[s].state = "OPEN"

\* C19: the retry counter is 0 right after every open; a step without an open
\* never lowers it, and raises it, by one, exactly when a transport closes and
\* the close is considered for reconnection (run not cancelled, autoreconnect
\* on, manual-close flag not set).
C19_RetryCounter ==
    [][IF \E s \in DOMAIN socks : OpensNow(s)
       THEN retriesRef' = 0
       ELSE IF \E s \in DOMAIN socks :
                  /\ ClosesNow(s)
                  /\ socks[s].gen = gen /\ mounted
                  /\ opts.autoreconnect
                  /\ ~manualCloseRef
            THEN retriesRef' = retriesRef + 1
            ELSE retriesRef' = retriesRef]_vars

\* After a close that raised the counter to 1, the reconnect opened and the
\* counter is 0 again.
C19_Witness ==
    /\ Len(socks) = 2
    /\ socks[1].state = "CLOSED"
    /\ socks[2].state = "OPEN"
    /\ socks[2].gen = socks[1].gen
    /\ retriesRef = 0

\* C20: at most one heartbeat timer exists at any time.
C20_OneHeartbeatTimer == hbTimers <= 1

\* Two transports are open, so startHeartbeat ran while the heartbeat was
\* running, and one timer exists.
C20_Witness ==
    /\ Cardinality({s \in DOMAIN socks : socks[s].state = "OPEN"}) = 2
    /\ hbRef
    /\ hbTimers = 1

(***************************************************************************)
(* Effects of the editing session: the reconciliation effect and the       *)
(* change-detection effect of hooks/useFlowStateSync.ts and the play-node  *)
(* decoration effect of flow/FlowController.tsx.  A step is one render:    *)
(* the updaters queued so far (and the event's own) produce the node list, *)
(* the render commits, and its effects run: the change-detection pass over *)
(* the committed node list, and the effects whose dependencies changed     *)
(* queue their setNodes updaters for the next render.                      *)
(***************************************************************************)
\* prevIOCountsRef.current[n.id] ?? {}
prevCountsOf(ref, id) ==
    IF id \in DOMAIN ref THEN ref[id] ELSE [inputs |-> Undefined, outputs |-> Undefined]

\* data.inputsCount ?? 1
countOrOne(c) == IF c = Undefined THEN Num(1) ELSE c

\* The body of nodes.forEach for one node: whether the node is reported and
\* the entry the table holds for it afterwards.  Both writes spread the
\* prevCounts read before the first of them.
detectNode(ref, n) ==
    LET prevCounts == prevCountsOf(ref, n.id)
        inCount == countOrOne(n.inputsCount)
        outCount == countOrOne(n.outputsCount)
        inChanged == normalizeIOMode(n.inputsMode) = "strn" /\ prevCounts.inputs # inCount
        outChanged == normalizeIOMode(n.outputsMode) = "strn" /\ prevCounts.outputs # outCount
    IN  [changed |-> inChanged \/ outChanged,
         entry |-> IF outChanged THEN [prevCounts EXCEPT !.outputs = outCount]
                   ELSE IF inChanged THEN [prevCounts EXCEPT !.inputs = inCount]
                   ELSE prevCounts]

\* The change-detection effect over the node list ns: the table afterwards and
\* the ids handed to updateNodeInternals.
changeDetection(ref, ns) ==
    LET changedNode(n) == detectNode(ref, n).changed
        reported == SelectSeq(ns, changedNode)
        ids == {reported[i].id : i \in DOMAIN reported}
        nodeOf(id) == CHOOSE n \in Range(ns) : n.id = id
    IN  [ref |-> [id \in DOMAIN ref \cup ids |->
                     IF id \in ids THEN detectNode(ref, nodeOf(id)).entry ELSE ref[id]],
         toUpdate |-> [i \in DOMAIN reported |-> reported[i].id]]

\* The decoration updater: nds.map with a copy of every Play node.
decoratePlayNodes(ns) ==
    [i \in DOMAIN ns |-> IF isPlayNode(ns[i]) THEN Spread(ns[i]) ELSE ns[i]]

\* The queued updaters applied in the order their effects are declared: the
\* reconciliation (useFlowStateSync) before the decoration (FlowController).
applyPending(ns) ==
    LET reconciled == IF "reconcile" \in pendingUpdates
                      THEN normalizeAllNodesIO(ns, edges) ELSE ns
    IN  IF "decorate" \in pendingUpdates THEN decoratePlayNodes(reconciled) ELSE reconciled

\* A render commits node list ns and edge list es.  The change-detection
\* effect runs when the nodes state is a new array; the reconciliation effect
\* queues its updater when edges changed; the decoration effect queues its
\* updater when handlePinNode (deps: nodes) or handleExecuteFromNode (deps:
\* nodes, edges) changed.
render(ns, es, nodesChanged) ==
    /\ nodes' = ns
    /\ edges' = es
    /\ IF nodesChanged
       THEN LET d == changeDetection(prevIOCountsRef, ns)
            IN  prevIOCountsRef' = d.ref /\ toUpdate' = d.toUpdate
       ELSE prevIOCountsRef' = prevIOCountsRef /\ toUpdate' = << >>
    /\ pendingUpdates' = (IF es # edges THEN {"reconcile"} ELSE {}) \cup
                         (IF nodesChanged \/ es # edges THEN {"decorate"} ELSE {})
    /\ nodesVersion' = IF nodesChanged THEN 1 - nodesVersion ELSE nodesVersion
    /\ UNCHANGED <<saved, passes>>
    /\ UNCHANGED <<wsVars, execVars>>

\* The session after its first render: no nodes, no edges, and the updaters
\* of the two effects that call setNodes on mount.
InitSync ==
    /\ nodes = << >>
    /\ edges = << >>
    /\ idRef = 1
    /\ saved = NoGraph
    /\ passes = 0
    /\ HooksIdle
    /\ prevIOCountsRef = NoRecords
    /\ toUpdate = << >>
    /\ pendingUpdates = {"reconcile", "decorate"}
    /\ nodesVersion = 0

\* A render caused by the queued updaters alone.
SyncRender ==
    /\ pendingUpdates # {}
    /\ render(applyPending(Held(nodes)), edges, TRUE)
    /\ UNCHANGED idRef

\* addNodeByType without a pending connection.
SyncAddNode ==
    /\ idRef <= MaxNodes
    /\ \E spec \in Palette :
          render(Append(applyPending(Held(nodes)),
                        Spread(newNodeFromSpec(nextId(idRef), spec))), edges, TRUE)
    /\ idRef' = idRef + 1

\* onNodesChange with a position change of one node.
SyncDrag ==
    /\ \E i \in DOMAIN nodes :
          render([applyPending(Held(nodes)) EXCEPT ![i] = Spread(@)], edges, TRUE)
    /\ UNCHANGED idRef

\* onConnect
SyncConnect ==
    /\ Len(edges) < MaxEdges
    /\ \E s \in NodeIdsOf(nodes), t \in NodeIdsOf(nodes),
          sh \in SourceHandles, th \in TargetHandles :
          LET es == addEdge(MkEdge(s, sh, t, th), edges)
          IN  /\ es # edges
              /\ render(applyPending(Held(nodes)), es, pendingUpdates # {})
    /\ UNCHANGED idRef

\* onEdgesChange with a remove change.
SyncRemoveEdge ==
    /\ \E i \in DOMAIN edges :
          render(applyPending(Held(nodes)), RemoveAt(edges, {i}), pendingUpdates # {})
    /\ UNCHANGED idRef

NextSync ==
    \/ SyncRender
    \/ SyncAddNode
    \/ SyncDrag
    \/ SyncConnect
    \/ SyncRemoveEdge

SpecSync == InitSync /\ [][NextSync]_vars

\* The resolved counts of the Dynamic directions of node n.
DynamicCounts(n) ==
    [inputs |-> IF normalizeIOMode(n.inputsMode) = "strn"
                THEN countOrOne(n.inputsCount) ELSE Undefined,
     outputs |-> IF normalizeIOMode(n.outputsMode) = "strn"
                 THEN countOrOne(n.outputsCount) ELSE Undefined]

\* Every node of ms is a node of ns with the same dynamic counts.
NoDynamicCountChanged(ns, ms) ==
    \A j \in DOMAIN ms :
        \E i \in DOMAIN ns :
            ns[i].id = ms[j].id /\ DynamicCounts(ns[i]) = DynamicCounts(ms[j])

\* C21: a change-detection pass over a node list in which no node is new and
\* no dynamic count differs from the list of the previous pass reports no
\* node to updateNodeInternals.
C21_NoChangeNoReport ==
    [][NoDynamicCountChanged(nodes, nodes') => toUpdate' = << >>]_vars

\* The mapping of a raw mode value: 0 and '0' to Fixed(0), 1 and '1' to
\* Fixed(1), 'n' to Dynamic, anything else to Fixed(1).
C22_ExpectedMode(mode) ==
    CASE mode \in {"num0", "str0"} -> "num0"
      [] mode \in {"num1", "str1"} -> "num1"
      [] mode = "strn" -> "strn"
      [] OTHER -> "num1"

\* C22: every node of the editor, built from a palette entry by the editor's
\* copy of the normalizer, stores the modes this mapping gives for the modes
\* of its palette entry.
C22_ModeMapping ==
    \A i \in DOMAIN nodes :
        \A spec \in Palette :
            spec.type = nodes[i].type =>
                /\ nodes[i].inputsMode = C22_ExpectedMode(spec.inputsMode)
                /\ nodes[i].outputsMode = C22_ExpectedMode(spec.outputsMode)

(***************************************************************************)
(* Triggers on a connection whose transport the peer is closing: the       *)
(* session with a Play node wired to a worker.                             *)
(***************************************************************************)
InitTrigger ==
    /\ nodes = <<playNode("n1"), workerNode("n2")>>
    /\ edges = <<MkEdge("n1", out_0, "n2", in_0)>>
    /\ idRef = 3
    /\ saved = NoGraph
    /\ passes = 0
    /\ SyncIdle
    /\ HooksIdle

NextTrigger ==
    \/ EffectMount
    \/ OnOpen
    \/ NetBeginClose
    \/ OnClose
    \/ TimerFireCapped
    \/ ExecuteWorkflow
    \/ OnMessage
    \/ MessageEffect
    \/ ResetExecution

SpecTrigger == InitTrigger /\ [][NextTrigger]_vars

\* C23: a trigger leaves the session Running only if the send() it made
\* returned success; when send() returns failure the session is in Error.
C23_RunningOnlyIfSent ==
    [][ExecuteWorkflow /\ sendLog' # sendLog =>
          IF sendLog'[Len(sendLog')]
          THEN executionState'.status = "running"
          ELSE executionState'.status = "error"]_vars

\* C24: once the session was reset and no trigger followed, no run is the
\* session's own, so handling an inbound event (which can only belong to an
\* earlier run) leaves the execution state as it is.
C24_EarlierRunIgnored ==
    [][/\ MessageEffect
       /\ executionState = initialState
       /\ history # << >>
       /\ history[Len(history)] = ResetEvent
       => executionState' = executionState]_vars

\* C25: whenever the transport created last is open, the owner is mounted and
\* close() has not been called, the manager holds that transport: send()
\* would succeed on it, the status is not 'closed', and the heartbeat runs if
\* it is enabled.
C25_CurrentTransportHeld ==
    LET last == Len(socks)
    IN  (last > 0 /\ socks[last].state = "OPEN" /\ mounted /\ ~closeCalled) =>
            /\ wsRef = last
            /\ sendOk
            /\ status # "closed"
            /\ (opts.heartbeatMs # 0 => hbRef)

\* C26: after the connecting effect was torn down and re-run, a close of the
\* transport of the current run that nobody asked for (owner mounted, close()
\* never called) schedules a reconnect when autoreconnect is on and the retry
\* limit is not reached, as in a manager whose effect ran once.
C26_ReconnectAfterRerun ==
    [][\A s \in DOMAIN socks :
          (/\ gen > 1
           /\ socks[s].gen = gen
           /\ ClosesNow(s)
           /\ mounted
           /\ ~closeCalled
           /\ opts.autoreconnect
           /\ retriesRef < opts.maxRetries)
          => /\ Cardinality(timers') = Cardinality(timers) + 1
             /\ status' = "connecting"]_vars

(***************************************************************************)
(* Connecting and disconnecting the ports of two Dynamic nodes: an edge is *)
(* drawn between handles that are rendered (BaseIONode renders in_0 ..     *)
(* in_(inputsCount-1) and out_0 .. out_(outputsCount-1)), and every change *)
(* of the edges is followed by the reconciliation effect.                  *)
(***************************************************************************)
MaxPortEdges == 3

\* `in_${i}` and `out_${i}`
inHandle(i) == <<"i", "n", "_", Digits[i + 1]>>

outHandle(i) == <<"o", "u", "t", "_", Digits[i + 1]>>

\* The palette entry with Dynamic inputs and outputs.
dynamicSpec == CHOOSE spec \in Palette : spec.type = "add"

nodeById(ns, id) == ns[CHOOSE i \in DOMAIN ns : ns[i].id = id]

InitPorts ==
    /\ nodes = <<newNodeFromSpec("n1", dynamicSpec), newNodeFromSpec("n2", dynamicSpec)>>
    /\ edges = << >>
    /\ idRef = 3
    /\ saved = NoGraph
    /\ passes = 0
    /\ SyncIdle
    /\ HooksIdle

\* onConnect from a rendered source handle of n1 to a rendered target handle
\* of n2, then the reconciliation effect.
PortConnect ==
    /\ Len(edges) < MaxPortEdges
    /\ \E i \in 0..(currentCount(nodeById(nodes, "n1").outputsCount) - 1),
          j \in 0..(currentCount(nodeById(nodes, "n2").inputsCount) - 1) :
          /\ i <= 1
          /\ edges' = addEdge(MkEdge("n1", outHandle(i), "n2", inHandle(j)), edges)
          /\ edges' # edges
          /\ nodes' = normalizeAllNodesIO(Held(nodes), edges')
    /\ UNCHANGED <<idRef, saved, passes>>
    /\ UNCHANGED <<wsVars, execVars, syncVars>>

\* onEdgesChange with a remove change, then the reconciliation effect.
PortRemoveEdge ==
    /\ \E i \in DOMAIN edges :
          /\ edges' = RemoveAt(edges, {i})
          /\ nodes' = normalizeAllNodesIO(Held(nodes), edges')
    /\ UNCHANGED <<idRef, saved, passes>>
    /\ UNCHANGED <<wsVars, execVars, syncVars>>

NextPorts == PortConnect \/ PortRemoveEdge

SpecPorts == InitPorts /\ [][NextPorts]_vars

SpecSyncFair == SpecSync /\ WF_vars(SyncRender)

\* An edit of the user.
SyncEdit == SyncAddNode \/ SyncDrag \/ SyncConnect \/ SyncRemoveEdge

\* C28: unless the user keeps editing for ever, the effects of the editing
\* session settle: again and again a render leaves no setNodes updater
\* queued by an effect.
C28_EffectsSettle == []<>(pendingUpdates = {}) \/ []<><<SyncEdit>>_vars

AllowedStatusSteps ==
    { <<"idle", "connecting">>, <<"connecting", "open">>, <<"connecting", "closed">>,
      <<"open", "closing">>, <<"open", "closed">>, <<"closing", "closed">>,
      <<"closed", "connecting">> }

\* C29: the status changes only along the allowed transitions (a close
\* handler that reconnects passes through 'closed' on its way to
\* 'connecting'); 'closing' is entered only through close(), and 'closed' is
\* left for 'connecting' only when autoreconnect is on and close() was not
\* called.
C29_StatusTransitions ==
    [][status' # status =>
          /\ \/ <<status, status'>> \in AllowedStatusSteps
             \/ /\ status' = "connecting"
                /\ <<status, "closed">> \in AllowedStatusSteps
                /\ \E s \in DOMAIN socks : ClosesNow(s)
          /\ status' = "closing" => closeCalled'
          /\ (status = "closed" /\ status' = "connecting") =>
                opts.autoreconnect /\ ~closeCalled]_vars

\* C30: with a finite maxRetries = N, a close schedules a reconnect only
\* while fewer than N closes were counted since the last open; the close
\* after the N-th attempt leaves the manager 'closed' with no timer; and a
\* manager whose every transport closed and was counted (none opened after
\* the first) has created at most N + 1 transports.
C30_RetryLimit ==
    [][opts.maxRetries < Infinity =>
          /\ \A s \in DOMAIN socks :
                ClosesNow(s) =>
                    /\ timers' # timers => retriesRef < opts.maxRetries
                    /\ retriesRef >= opts.maxRetries =>
                          status' = "closed" /\ timers' = timers
          /\ (gen' = 1 /\ retriesRef' = Len(socks')) =>
                Len(socks') <= opts.maxRetries + 1]_vars

\* Every attempt the limit allows failed: N + 1 transports were created and
\* closed, and the manager is 'closed' with no reconnect pending.
C30_Witness ==
    /\ opts.maxRetries < Infinity
    /\ opts.autoreconnect
    /\ gen = 1 /\ mounted /\ ~closeCalled
    /\ Len(socks) = opts.maxRetries + 1
    /\ \A s \in DOMAIN socks : socks[s].state = "CLOSED"
    /\ retriesRef = opts.maxRetries + 1
    /\ status = "closed"
    /\ timers = {}

(***************************************************************************)
(* Reconnection under a backend that comes back: auto-reconnect on,        *)
(* maxRetries unbounded, close() never called, the owner never disposed.   *)
(* Transports fail while fewer than MaxSockets were created; the           *)
(* MaxSockets-th one is accepted and kept by the backend.                  *)
(***************************************************************************)
ReconnectOptions == {o \in OptionSets : o.autoreconnect /\ o.maxRetries = Infinity}

InitReconnect == InitWs /\ opts \in ReconnectOptions

\* The effect runs again (a dependency changed, or StrictMode's second run)
\* with auto-reconnect still on.
EffectRerunReconnecting == \E o \in ReconnectOptions : rerunEffect(o)

\* The backend or the network drops an open transport while it is down.
NetFailure == NetBeginClose /\ Len(socks) < MaxSockets

\* The close event of a transport that was closing, or the failure of a
\* connecting or open one while the backend is down.
CloseEvent ==
    /\ OnClose
    /\ \A s \in DOMAIN socks :
          (socks[s].state \in {"CONNECTING", "OPEN"} /\ socks'[s].state = "CLOSED")
              => Len(socks) < MaxSockets

\* The close event of a transport on which close() was called is dispatched.
ClosingCompletes ==
    /\ OnClose
    /\ \A s \in DOMAIN socks : ClosesNow(s) => socks[s].state = "CLOSING"

NextReconnect ==
    \/ EffectMount
    \/ EffectRerunReconnecting
    \/ OnOpen
    \/ NetFailure
    \/ CloseEvent
    \/ TimerFire

\* Timers fire, an accepted transport reports its opening, and a closing
\* transport reports its close.
SpecReconnect ==
    /\ InitReconnect
    /\ [][NextReconnect]_vars
    /\ WF_vars(EffectMount)
    /\ WF_vars(TimerFire)
    /\ WF_vars(OnOpen)
    /\ WF_vars(ClosingCompletes)

\* SpecReconnect for a manager whose effect runs once.
SpecReconnectFirstRun ==
    /\ InitReconnect
    /\ [][NextReconnect /\ gen' <= 1]_vars
    /\ WF_vars(EffectMount)
    /\ WF_vars(TimerFire)
    /\ WF_vars(OnOpen)
    /\ WF_vars(ClosingCompletes)

\* C31: with auto-reconnect on, maxRetries unbounded, no close() and no
\* disposal, a manager whose status is 'closed' or 'connecting' reaches
\* 'open' again once the backend accepts connections, however many attempts
\* failed before.
C31_EventuallyOpen == (status \in {"closed", "connecting"}) ~> (status = "open")

(***************************************************************************)
(* The execution session on its connection, with a Play node wired to a    *)
(* worker: besides InboundPayloads the backend sends a failure that names  *)
(* the failed node, progress without a run id and progress of another run. *)
(***************************************************************************)
SessionPayloads ==
    InboundPayloads \cup
    { [json |-> TRUE,
       value |-> Msg("EXECUTION_ERROR", "R1", "undefined", 0, 0, 0, 0, "boom", "n2")],
      [json |-> TRUE,
       value |-> Msg("EXECUTION_STATUS", "undefined", "n2", 0, 0, 0, 0, "undefined",
                     "undefined")],
      [json |-> TRUE,
       value |-> Msg("EXECUTION_STATUS", "R2", "n1", 0, 0, 0, 0, "undefined",
                     "undefined")] }

OnSessionMessage == onmessage(SessionPayloads)

NextSession ==
    \/ EffectMount
    \/ OnOpen
    \/ OnClose
    \/ TimerFireCapped
    \/ ExecuteWorkflow
    \/ OnSessionMessage
    \/ MessageEffect
    \/ ResetExecution

SpecSession == InitTrigger /\ [][NextSession]_vars

FailureWithoutNode == Msg("EXECUTION_ERROR", "R1", "undefined", 0, 0, 0, 0, "boom", "undefined")

ProgressWithTotal == Msg("EXECUTION_STATUS", "R1", "n1", 3, 0, 0, 0, "undefined", "undefined")

ProgressWithoutTotal == Msg("EXECUTION_STATUS", "R1", "n2", 0, 0, 0, 0, "undefined", "undefined")

\* The handler of the session runs in this step with a message of this kind.
Handles(type) == MessageEffect /\ lastJson.type = type

\* The fields a progress or failure event has no business with.
Counters(st) == <<st.executedNodes, st.cachedNodes, st.durationMs>>

\* C32: handling a failure event leaves the session in error with the
\* event's error message and run id; the failed node is the one the event
\* names, or the current node held before the event when it names none; the
\* total, executed and cached counts and the duration stay as they were.
C32_FailureEvent ==
    [][Handles("EXECUTION_ERROR") =>
          /\ executionState'.status = "error"
          /\ executionState'.error = lastJson.error
          /\ executionState'.runId = lastJson.run_id
          /\ executionState'.currentNode =
                IF lastJson.failed_node # "undefined" THEN lastJson.failed_node
                ELSE executionState.currentNode
          /\ executionState'.totalNodes = executionState.totalNodes
          /\ Counters(executionState') = Counters(executionState)]_vars

\* Progress at node n1 of three, then a failure that names no node: the
\* failed node is n1 and the total is still three.
C32_Witness ==
    /\ history # << >>
    /\ history[Len(history)] = FailureWithoutNode
    /\ executionState.status = "error"
    /\ executionState.error = "boom"
    /\ executionState.runId = "R1"
    /\ executionState.currentNode = "n1"
    /\ executionState.totalNodes = 3

\* C33: handling a progress event while running keeps the session running
\* and sets the current node to the event's; the total is replaced only by
\* an event that gives one and is kept otherwise; executed and cached counts,
\* duration and error are not changed.
C33_ProgressEvent ==
    [][Handles("EXECUTION_STATUS") /\ executionState.status = "running" =>
          /\ executionState'.status = "running"
          /\ executionState'.currentNode = lastJson.current_node
          /\ executionState'.totalNodes # executionState.totalNodes =>
                /\ lastJson.total_nodes # 0
                /\ executionState'.totalNodes = lastJson.total_nodes
          /\ lastJson.total_nodes = 0 =>
                executionState'.totalNodes = executionState.totalNodes
          /\ Counters(executionState') = Counters(executionState)
          /\ executionState'.error = executionState.error]_vars

\* Progress announcing three nodes, then progress at n2 without a total: the
\* total is still three.
C33_Witness ==
    /\ history # << >>
    /\ history[Len(history)] = ProgressWithoutTotal
    /\ executionState.status = "running"
    /\ executionState.currentNode = "n2"
    /\ executionState.totalNodes = 3

\* C34: once a progress event has set the run id of a running session, a
\* later progress event leaves the run id as it is, whether it carries no
\* run id or another one.
C34_RunIdSetOnce ==
    [][/\ Handles("EXECUTION_STATUS")
       /\ executionState.status = "running"
       /\ executionState.runId \notin {"null", "undefined"}
       => executionState'.runId = executionState.runId]_vars

RecognizedKinds == {"EXECUTION_STATUS", "EXECUTION_COMPLETE", "EXECUTION_ERROR"}

\* C35: a payload that is not JSON is exposed as the raw message with the
\* parsed value null, and its arrival leaves the execution state as it is;
\* handling a JSON message of an unrecognized kind leaves the execution
\* state as it is, error field included.
C35_IgnoredPayloads ==
    [][/\ (onmessage(SessionPayloads) /\ ~lastMessage'.json) =>
              /\ lastMessage'.value.type = "raw"
              /\ lastJson' = NullJson
              /\ ~jsonPending'
              /\ executionState' = executionState
       /\ (MessageEffect /\ lastJson.type \notin RecognizedKinds) =>
              executionState' = executionState]_vars

\* A node configuration was handled and a raw text arrived while a run was
\* in progress: the session is still running at the same node.
C35_Witness ==
    /\ history # << >>
    /\ history[Len(history)] = BlankMsg("NODE_CONFIG")
    /\ ~lastMessage.json
    /\ lastMessage.value.type = "raw"
    /\ lastJson = NullJson
    /\ executionState.status = "running"
    /\ executionState.runId = "R1"
    /\ executionState.currentNode = "n1"

\* C36: while the session is running, a step in which a transport opens,
\* closes or is created leaves the execution state, the
\* frames sent and the message awaiting the handler as they are.
C36_DisconnectKeepsSession ==
    [][(socks' # socks \/ status' # status) /\ executionState.status = "running" =>
          /\ executionState' = executionState
          /\ sent' = sent
          /\ sendLog' = sendLog
          /\ lastJson' = lastJson
          /\ jsonPending' = jsonPending]_vars

\* The request went out on the first transport, progress of R1 arrived, the
\* transport closed and a second one opened: still running, one request sent.
C36_Witness ==
    /\ Len(socks) = 2
    /\ socks[1].state = "CLOSED"
    /\ socks[2].state = "OPEN"
    /\ status = "open"
    /\ Len(sent) = 1
    /\ sent[1].sock = 1
    /\ executionState.status = "running"
    /\ executionState.runId = "R1"
    /\ executionState.currentNode = "n1"
    /\ executionState.totalNodes = 3

\* C37: a reset leaves the session idle with run id, error and current node
\* null and the total, executed and cached counts and the duration 0, and
\* hands nothing to the connection.
C37_Reset ==
    [][history' # history /\ history'[Len(history')] = ResetEvent =>
          /\ executionState' =
                [status |-> "idle", runId |-> "null", totalNodes |-> 0,
                 executedNodes |-> 0, cachedNodes |-> 0, durationMs |-> 0,
                 error |-> "null", currentNode |-> "null"]
          /\ sent' = sent
          /\ sendLog' = sendLog
          /\ socks' = socks]_vars

\* A run was requested and the session was reset afterwards, the connection
\* still open.
C37_Witness ==
    /\ history # << >>
    /\ history[Len(history)] = ResetEvent
    /\ executionState.status = "idle"
    /\ executionState.runId = "null"
    /\ Len(sent) = 1
    /\ status = "open"

(***************************************************************************)
(* What one reconciliation pass changes in a node.                         *)
(***************************************************************************)
desiredInCount(n) == Num(Max(DistinctInputHandles(n.id) + 1, 1))

desiredOutCount(n) == Num(Max(DistinctOutputHandles(n.id) + 1, 1))

\* Spec 4.2 step 4: the desired count differs from the stored count.
inputsNeedUpdate(n) == isDynInputsNode(n) /\ n.inputsCount # desiredInCount(n)

outputsNeedUpdate(n) == isDynOutputsNode(n) /\ n.outputsCount # desiredOutCount(n)

\* A pass runs in this step.
PassRuns == passes' = passes + 1

\* Node n, handed to the pass, and node m, returned for it: m is n itself
\* when no direction needs an update, and otherwise differs from n only in
\* the count of a Dynamic direction, which is the desired count.
C38_Frame(n, m) ==
    /\ (~inputsNeedUpdate(n) /\ ~outputsNeedUpdate(n)) => m = n
    /\ m.id = n.id /\ m.type = n.type
    /\ m.inputsMode = n.inputsMode /\ m.outputsMode = n.outputsMode
    /\ m.inputsCount # n.inputsCount =>
          isDynInputsNode(n) /\ m.inputsCount = desiredInCount(n)
    /\ m.outputsCount # n.outputsCount =>
          isDynOutputsNode(n) /\ m.outputsCount = desiredOutCount(n)

\* When both directions of n need an update, m holds both desired counts.
C38_BothPresent(n, m) ==
    (inputsNeedUpdate(n) /\ outputsNeedUpdate(n)) =>
        /\ m.inputsCount = desiredInCount(n)
        /\ m.outputsCount = desiredOutCount(n)

\* The part of C38 about unchanged nodes and preserved fields alone.
C38_UnchangedAndFrame ==
    [][PassRuns =>
          \A i \in DOMAIN nodes : C38_Frame(Held(nodes)[i], nodes'[i])]_vars

\* C38: a reconciliation pass returns unchanged every node without a Dynamic
\* direction and every Dynamic node whose stored counts equal the desired
\* counts; in a node it updates, only the count of the affected direction
\* changes; and when both directions need updating, both desired counts are
\* in the result.
C38_ReconcileFrame ==
    [][PassRuns =>
          \A i \in DOMAIN nodes :
              /\ C38_Frame(Held(nodes)[i], nodes'[i])
              /\ C38_BothPresent(Held(nodes)[i], nodes'[i])]_vars

(***************************************************************************)
(* Validation of the graphs a trigger can be issued for: up to two nodes,  *)
(* each a Play node of either type or a worker, unconnected, wired to each *)
(* other, or with n1 wired to itself.                                      *)
(***************************************************************************)
comfyPlayNode(id) == MkNode(id, "comfyPlay", "str0", Undefined, "str1", Undefined)

NodeKinds(id) == {playNode(id), comfyPlayNode(id), workerNode(id)}

ValidationGraphs ==
    {ExecGraph(<< >>, << >>)}
    \cup {ExecGraph(<<a>>, es) :
            a \in NodeKinds("n1"),
            es \in {<< >>, <<MkEdge("n1", out_0, "n1", in_0)>>}}
    \cup {ExecGraph(<<a, b>>, es) :
            a \in NodeKinds("n1"), b \in NodeKinds("n2"),
            es \in {<< >>, <<MkEdge("n1", out_0, "n1", in_0)>>,
                    <<MkEdge("n1", out_0, "n2", in_0)>>}}

InitValidate ==
    /\ \E g \in ValidationGraphs : nodes = g.nodes /\ edges = g.edges
    /\ idRef = 3
    /\ saved = NoGraph
    /\ passes = 0
    /\ SyncIdle
    /\ HooksIdle

NextValidate ==
    \/ EffectMount
    \/ OnOpen
    \/ ExecuteWorkflow
    \/ ResetExecution

SpecValidate == InitValidate /\ [][NextValidate]_vars

TriggerTypes == {"playButton", "comfyPlay"}

HasNoTrigger(ns) == \A i \in DOMAIN ns : ns[i].type \notin TriggerTypes

\* C39: the validation of the editor's graph reports the empty-graph error
\* iff there is no node and the no-trigger error iff there is no node of a
\* trigger type, the empty-graph error first when both hold; the graph is
\* valid iff neither holds; nothing else, isolated nodes included, adds an
\* error; and a trigger that follows reports exactly these errors.
C39_Validation ==
    LET v == validateGraphForExecution(nodes, edges)
        expected ==
            (IF Len(nodes) = 0 THEN <<emptyGraphError>> ELSE << >>)
            \o (IF HasNoTrigger(nodes) THEN <<noPlayNodeError>> ELSE << >>)
    IN  /\ (\E k \in DOMAIN v.errors : v.errors[k] = emptyGraphError) <=> Len(nodes) = 0
        /\ (\E k \in DOMAIN v.errors : v.errors[k] = noPlayNodeError) <=> HasNoTrigger(nodes)
        /\ v.errors = expected
        /\ v.valid <=> (Len(nodes) # 0 /\ ~HasNoTrigger(nodes))
        /\ (history # << >> /\ history[Len(history)] = TriggerEvent) =>
              IF expected = << >>
              THEN executionState.error \notin {emptyGraphError, noPlayNodeError,
                                                 join(expected, "; ")}
              ELSE /\ executionState.status = "error"
                   /\ executionState.error = join(expected, "; ")

\* A Play node with an isolated worker beside it: the trigger went out and
\* the session is running.
C39_Witness ==
    /\ Len(nodes) = 2
    /\ edges = << >>
    /\ isPlayNode(nodes[1])
    /\ ~isPlayNode(nodes[2])
    /\ Len(isolatedNodes(nodes, edges)) = 1
    /\ history # << >>
    /\ history[Len(history)] = TriggerEvent
    /\ executionState.status = "running"
    /\ Len(sent) = 1

\* C40: every node descriptor of a serialized graph holds, as its data, the
\* value members of the node's data bag and no function-valued member,
\* whatever the type of the node.
C40_NoCallbackInData ==
    \A g \in serialized :
        /\ Len(g.nodes) = Len(nodes)
        /\ \A i \in DOMAIN g.nodes :
              /\ g.nodes[i].id = nodes[i].id
              /\ g.nodes[i].data.inputsMode = nodes[i].inputsMode
              /\ g.nodes[i].data.inputsCount = nodes[i].inputsCount
              /\ g.nodes[i].data.outputsMode = nodes[i].outputsMode
              /\ g.nodes[i].data.outputsCount = nodes[i].outputsCount
              /\ g.nodes[i].data.callbacks = {}

====
